---- MODULE Spec2Model ----
(***************************************************************************)
(* Kettlebell shop: session basket / durable basket / order / stock        *)
(* reconciliation.  State machine of the request handlers in               *)
(*   kettlebell_shop/views.py, basket/views.py, basket/signals.py,         *)
(*   checkout/views.py, checkout/webhooks.py, checkout/admin.py and        *)
(*   checkout/utils.py.                                                    *)
(*                                                                         *)
(* Conventions.                                                            *)
(*  - A Python dict kept in the session (request.session['basket']) is an  *)
(*    insertion-ordered sequence of entries [key, quantity, price_gbp].    *)
(*    Every read in the source is request.session.get('basket', {}) or a   *)
(*    truthiness test, so a missing 'basket' key and an empty dict are the *)
(*    same value <<>> here.                                                *)
(*  - json.dumps of that dict is modelled by the ordered sequence itself   *)
(*    (two dumps are equal strings iff the entries are equal in the same   *)
(*    order); json.loads followed by a dict comparison is order-blind.     *)
(*  - Money is an integer number of pounds; Decimal arithmetic is exact.   *)
(*  - An order number is the position of the order in the orders table;    *)
(*    the date ordering of orders is the same position.                    *)
(***************************************************************************)
EXTENDS Integers, Sequences, FiniteSets, TLC

\* ---------------------------------------------------------------- bounds
\* MaxStock / MaxQty: initial stock and largest requested quantity of the
\* basket specification; OrderStock / OrderQty: the same for the order
\* specifications; PaymentStock: initial stock of the payment specification;
\* MaxOrders: rows the orders table may hold; MaxLines: line items of an
\* order handed to the stock adjuster alone; ReuseOrders: rows the orders
\* table may hold in the order-reuse specification
MaxStock == 2
MaxQty == 2
OrderStock == 1
OrderQty == 1
PaymentStock == 2
MaxOrders == 2
MaxLines == 2
ReuseOrders == 3

\* ------------------------------------------------------------- the world
Products == {1, 2}
Users == {"u1"}
Sessions == {"s1", "s2"}
\* the visitors acting in the order specifications
OrderSessions == {"s1"}
NoUser == "anon"
NoOrder == 0
NoProduct == 0
UnknownWeight == 99

STATUS_PENDING == "pending"
STATUS_PAID == "paid"
STATUS_DISPATCHED == "dispatched"
STATUS_FAILED == "failed"

Weight(p) == IF p = 1 THEN 16 ELSE 24
InitialPrice(p) == IF p = 1 THEN 5 ELSE 7
RequestWeights == {Weight(p) : p \in Products} \cup {UnknownWeight}

\* Kettlebell.objects.get(weight=w, weight_unit='kg'): the pk or NoProduct
ProductByWeight(w) ==
    IF \E p \in Products : Weight(p) = w
    THEN CHOOSE p \in Products : Weight(p) = w
    ELSE NoProduct

\* str(Decimal(str(weight_raw))) with trailing zeros stripped
WeightKey(w) ==
    CASE w = 16 -> "16"
      [] w = 24 -> "24"
      [] OTHER -> "99"

\* Decimal(str(token)): the number a text token denotes, or -1
\* when the conversion raises
DecimalOf(tok) ==
    CASE tok \in {"16", "16.00"} -> 16
      [] tok \in {"24", "24.00"} -> 24
      [] tok \in {"99", "99.00"} -> 99
      [] OTHER -> -1

\* int(weight_str): the integer, or -1 where int() raises ValueError
IntOf(tok) ==
    CASE tok = "16" -> 16
      [] tok = "24" -> 24
      [] tok = "99" -> 99
      [] OTHER -> -1

\* str(kb.weight): the DecimalField renders with two places
WeightText(w) ==
    CASE w = 16 -> "16.00"
      [] w = 24 -> "24.00"
      [] OTHER -> "99.00"

PriceText(pr) ==
    CASE pr = 5 -> "(5.00)"
      [] pr = 7 -> "(7.00)"
      [] OTHER -> "(0.00)"

\* ------------------------------------------------- ordered dict (session)
DictHas(d, k) == \E i \in 1..Len(d) : d[i].key = k
DictIdx(d, k) == CHOOSE i \in 1..Len(d) : d[i].key = k
DictQty(d, k) == IF DictHas(d, k) THEN d[DictIdx(d, k)].quantity ELSE 0
DictSet(d, k, qty, pr) ==
    LET e == [key |-> k, quantity |-> qty, price_gbp |-> pr]
    IN IF DictHas(d, k) THEN [d EXCEPT ![DictIdx(d, k)] = e] ELSE Append(d, e)
DictPop(d, k) == SelectSeq(d, LAMBDA e : e.key # k)
DictEq(a, b) == {a[i] : i \in 1..Len(a)} = {b[i] : i \in 1..Len(b)}
JsonDumps(d) == d

\* ------------------------------------------------- durable basket rows
RowHas(rows, p) == \E i \in 1..Len(rows) : rows[i].product = p
RowIdx(rows, p) == CHOOSE i \in 1..Len(rows) : rows[i].product = p
RowQty(rows, p) == IF RowHas(rows, p) THEN rows[RowIdx(rows, p)].quantity ELSE 0

VARIABLES kettlebells, sessions, basketItems, orders, response, inflight

vars == <<kettlebells, sessions, basketItems, orders, response, inflight>>

\* the response of the last request (handler and outcome).  Responses are
\* recorded only in the specifications whose Init starts from NoResponse;
\* the others start from, and keep, Unobserved.
NoResponse == [op |-> "none", res |-> "none"]
Unobserved == [op |-> "unobserved", res |-> "unobserved"]
Resp(op, res) ==
    IF response = Unobserved THEN Unobserved ELSE [op |-> op, res |-> res]

IsAuthenticated(s) == sessions[s].user # NoUser

\* inflight[s]: the Order instance a request of visitor s has read from the
\* orders table and not yet saved (the handler's local `order`); NoRequest
\* when no request of s is between its read and its save
NoRequest == [op |-> "none", n |-> NoOrder]
Idle(s) == inflight[s] = NoRequest

InitWith(stock0, obs) ==
    /\ kettlebells = [p \in Products |->
                        [stock |-> stock0, price_gbp |-> InitialPrice(p)]]
    /\ sessions = [s \in Sessions |->
                     [user |-> NoUser, basket |-> <<>>,
                      pending_order_number |-> NoOrder,
                      basket_merged |-> FALSE]]
    /\ basketItems = [u \in Users |-> <<>>]
    /\ orders = <<>>
    /\ response = IF obs THEN NoResponse ELSE Unobserved
    /\ inflight = [s \in Sessions |-> NoRequest]

Init == InitWith(OrderStock, FALSE)

InitBasket == InitWith(MaxStock, TRUE)

InitPayment == InitWith(PaymentStock, TRUE)

\* ------------------------------------------------------- add_to_basket
\* (mutant: the stale key is popped even when bare stock cannot cover q)
StaleDrop_AnyStock(sessQty, dbQty, q, stock) ==
    /\ sessQty + dbQty + q > stock
    /\ dbQty = 0
    /\ sessQty > 0

\* the stale-session branch: the session key is popped and the total is
\* recomputed when the durable row is absent and bare stock covers q
StaleDrop(sessQty, dbQty, q, stock) ==
    /\ sessQty + dbQty + q > stock
    /\ dbQty = 0
    /\ sessQty > 0
    /\ stock >= q

AuthTotalAfter(sessQty, dbQty, q, stock) ==
    IF StaleDrop(sessQty, dbQty, q, stock) THEN dbQty + q
    ELSE sessQty + dbQty + q

\* (mutant: the quantity already in the session is not counted)
AnonTotalAfter_RequestOnly(sessQty, q) == q

AnonTotalAfter(sessQty, q) == sessQty + 0 + q

\* add_to_basket of an authenticated user: basket is the session basket the
\* request holds, rows the durable rows read inside the transaction
AddAuthWrite(s, w, q, basket, rows) ==
    LET u == sessions[s].user
        p == ProductByWeight(w)
        key == WeightKey(w)
        sessQty == DictQty(basket, key)
        dbQty == RowQty(rows, p)
        stock == kettlebells[p].stock
        stale == StaleDrop(sessQty, dbQty, q, stock)
        sessAfterStale == IF stale THEN 0 ELSE sessQty
        basket0 == IF stale THEN DictPop(basket, key) ELSE basket
        newRow == [product |-> p, quantity |-> dbQty + q,
                   price_snapshot |-> kettlebells[p].price_gbp]
    IN IF p = NoProduct
       THEN /\ response' = Resp("add_to_basket", "ProductNotFound")
            /\ UNCHANGED <<kettlebells, sessions, basketItems, orders>>
       ELSE IF AuthTotalAfter(sessQty, dbQty, q, stock) > stock
       THEN /\ response' = Resp("add_to_basket", "InsufficientStock")
            /\ sessions' = [sessions EXCEPT ![s].basket = basket0]
            /\ UNCHANGED <<kettlebells, basketItems, orders>>
       ELSE /\ sessions' = [sessions EXCEPT ![s].basket =
                              DictSet(basket0, key, sessAfterStale + q,
                                      kettlebells[p].price_gbp)]
            /\ basketItems' = [basketItems EXCEPT ![u] =
                                 IF RowHas(rows, p)
                                 THEN [rows EXCEPT ![RowIdx(rows, p)] = newRow]
                                 ELSE Append(rows, newRow)]
            /\ response' = Resp("add_to_basket", "ok")
            /\ UNCHANGED <<kettlebells, orders>>

AddToBasketAuth(s, w, q) ==
    /\ AddAuthWrite(s, w, q, sessions[s].basket, basketItems[sessions[s].user])
    /\ UNCHANGED inflight

AddToBasketAnon(s, w, q) ==
    LET p == ProductByWeight(w)
        key == WeightKey(w)
        sessQty == DictQty(sessions[s].basket, key)
    IN IF p = NoProduct
       THEN /\ response' = Resp("add_to_basket", "ProductNotFound")
            /\ UNCHANGED inflight
            /\ UNCHANGED <<kettlebells, sessions, basketItems, orders>>
       ELSE IF AnonTotalAfter(sessQty, q) > kettlebells[p].stock
       THEN /\ response' = Resp("add_to_basket", "InsufficientStock")
            /\ UNCHANGED inflight
            /\ UNCHANGED <<kettlebells, sessions, basketItems, orders>>
       ELSE /\ sessions' = [sessions EXCEPT ![s].basket =
                              DictSet(@, key, sessQty + q,
                                      kettlebells[p].price_gbp)]
            /\ response' = Resp("add_to_basket", "ok")
            /\ UNCHANGED inflight
            /\ UNCHANGED <<kettlebells, basketItems, orders>>

AddToBasket(s, w, q) ==
    IF q < 1
    THEN /\ response' = Resp("add_to_basket", "QuantityInvalid")
         /\ UNCHANGED inflight
         /\ UNCHANGED <<kettlebells, sessions, basketItems, orders>>
    ELSE IF IsAuthenticated(s) THEN AddToBasketAuth(s, w, q)
         ELSE AddToBasketAnon(s, w, q)

\* ------------------------------------------------------------- orders
\* field defaults of a freshly constructed Order (the field declarations
\* are not part of the available sources)
STATUS_DEFAULT == STATUS_PENDING
PAID_DEFAULT == FALSE
STOCK_ADJUSTED_DEFAULT == FALSE

\* form.save(commit=False): an unsaved Order instance
NewOrder ==
    [profile |-> NoUser, status |-> STATUS_DEFAULT, paid |-> PAID_DEFAULT,
     stock_adjusted |-> STOCK_ADJUSTED_DEFAULT, original_basket |-> <<>>,
     total |-> 0, items |-> <<>>]

OrderExists(n) == n \in 1..Len(orders)

\* Kettlebell.__str__: "<weight> <unit> (<price>)", as whitespace tokens
KbName(p) == <<WeightText(Weight(p)), "kg", PriceText(kettlebells[p].price_gbp)>>

\* the name given to a session entry: str(kb) when the key resolves,
\* otherwise "<key> kg kettlebell"
SessionEntryName(key) ==
    LET w == DecimalOf(key)
        p == IF w = -1 THEN NoProduct ELSE ProductByWeight(w)
    IN IF p # NoProduct THEN KbName(p) ELSE <<key, "kg", "kettlebell">>

\* line items built from the durable rows of an authenticated owner
LineItemsFromRows(rows) ==
    [i \in 1..Len(rows) |->
        [product |-> NoProduct, product_name |-> KbName(rows[i].product),
         quantity |-> rows[i].quantity, price |-> rows[i].price_snapshot]]

\* line items built from the session basket of an anonymous visitor
LineItemsFromSession(basket) ==
    [i \in 1..Len(basket) |->
        [product |-> NoProduct, product_name |-> SessionEntryName(basket[i].key),
         quantity |-> basket[i].quantity, price |-> basket[i].price_gbp]]

RECURSIVE ItemsTotal(_)
ItemsTotal(items) ==
    IF Len(items) = 0 THEN 0
    ELSE items[1].price * items[1].quantity + ItemsTotal(Tail(items))

\* newest PENDING order of the profile (order_by('-date').first())
LatestPendingFor(u) ==
    LET cand == {n \in 1..Len(orders) :
                    orders[n].profile = u /\ orders[n].status = STATUS_PENDING}
    IN IF cand = {} THEN NoOrder
       ELSE CHOOSE n \in cand : \A m \in cand : m <= n

\* (mutant: the lookup of an order to reuse finds none)
ExistingOrder_None(s) == NoOrder

\* the PENDING order a checkout reuses, or NoOrder
ExistingOrder(s) ==
    LET cur == JsonDumps(sessions[s].basket)
        u == sessions[s].user
        pending == sessions[s].pending_order_number
    IN IF IsAuthenticated(s)
       THEN LET n == LatestPendingFor(u)
            IN IF n # NoOrder /\ orders[n].original_basket = cur
               THEN n ELSE NoOrder
       ELSE IF /\ pending # NoOrder
               /\ OrderExists(pending)
               /\ orders[pending].status = STATUS_PENDING
               /\ orders[pending].original_basket = cur
            THEN pending ELSE NoOrder

\* the line items checkout writes for the requester's basket
CheckoutItems(s) ==
    IF IsAuthenticated(s)
    THEN LineItemsFromRows(basketItems[sessions[s].user])
    ELSE LineItemsFromSession(sessions[s].basket)

\* (mutant: the line items of a reused order are kept and the new ones added)
CheckoutInstance_KeepItems(s, base) ==
    [base EXCEPT !.profile = IF IsAuthenticated(s) THEN sessions[s].user ELSE @,
                 !.original_basket = JsonDumps(sessions[s].basket),
                 !.items = base.items \o CheckoutItems(s),
                 !.total = ItemsTotal(CheckoutItems(s))]

\* the Order instance checkout saves: the reused row or a new one, with the
\* profile attached, the session basket snapshot, fresh items and the total
CheckoutInstance(s, base) ==
    [base EXCEPT !.profile = IF IsAuthenticated(s) THEN sessions[s].user ELSE @,
                 !.original_basket = JsonDumps(sessions[s].basket),
                 !.items = CheckoutItems(s),
                 !.total = ItemsTotal(CheckoutItems(s))]

\* (mutant: checkout empties the session basket)
SessionAfterCheckout_Cleared(sess, n) ==
    [sess EXCEPT !.pending_order_number = n, !.basket = <<>>]

\* request.session['pending_order_number'] = order.order_number
SessionAfterCheckout(sess, n) == [sess EXCEPT !.pending_order_number = n]

\* checkout after its lookup: n0 is the order found to reuse (NoOrder when
\* none) and base the instance read for it; the save writes every field
CheckoutWriteUpTo(s, n0, base, cap) ==
    LET reused == n0 # NoOrder
        n == IF reused THEN n0 ELSE Len(orders) + 1
        inst == CheckoutInstance(s, base)
    IN /\ reused \/ Len(orders) < cap
       /\ orders' = IF reused THEN [orders EXCEPT ![n] = inst]
                    ELSE Append(orders, inst)
       /\ sessions' = [sessions EXCEPT ![s] = SessionAfterCheckout(@, n)]
       /\ response' = Resp("checkout", IF reused THEN "reused" ELSE "created")
       /\ UNCHANGED <<kettlebells, basketItems>>

CheckoutWrite(s, n0, base) == CheckoutWriteUpTo(s, n0, base, MaxOrders)

\* the instance checkout works on: the row to reuse, or an unsaved Order
CheckoutBase(n0) == IF n0 # NoOrder THEN orders[n0] ELSE NewOrder

Checkout(s, valid) ==
    IF ~valid
    THEN /\ response' = Resp("checkout", "ValidationFailed")
         /\ UNCHANGED <<kettlebells, sessions, basketItems, orders, inflight>>
    ELSE /\ CheckoutWrite(s, ExistingOrder(s), CheckoutBase(ExistingOrder(s)))
         /\ UNCHANGED inflight

\* (mutant: the ownership / session check lets everyone through)
PermittedOn_Anyone(s, n, o) == TRUE

\* ownership / session check shared by mark_order_paid and cancel_order
PermittedOn(s, n, o) ==
    IF IsAuthenticated(s)
    THEN o.profile # NoUser /\ o.profile = sessions[s].user
    ELSE /\ sessions[s].pending_order_number # NoOrder
         /\ sessions[s].pending_order_number = n

Permitted(s, n) == PermittedOn(s, n, orders[n])

\* (mutant: the pending-order token is left in the session)
DropPending_Keep(sess, n) == sess

\* del request.session['pending_order_number'] when it names the order
DropPending(sess, n) ==
    IF sess.pending_order_number = n
    THEN [sess EXCEPT !.pending_order_number = NoOrder] ELSE sess

\* (mutant: the confirmation sets the status and leaves paid as it was)
PaidOrder_StatusOnly(o) == [o EXCEPT !.status = STATUS_PAID]

\* the order fields mark_order_paid and the webhook write
PaidOrder(o) == [o EXCEPT !.paid = TRUE, !.status = STATUS_PAID]

\* (mutant: the confirmation leaves the owner's rows in place)
BasketAfterPayment_Keep(items, u) == items

\* basket_obj.items.all().delete() for the basket of user u
BasketAfterPayment(items, u) == [items EXCEPT ![u] = <<>>]

MarkOrderPaid(s, n) ==
    IF ~OrderExists(n)
    THEN /\ response' = Resp("mark_order_paid", "NotFound")
         /\ UNCHANGED inflight
         /\ UNCHANGED <<kettlebells, sessions, basketItems, orders>>
    ELSE IF ~Permitted(s, n)
    THEN /\ response' = Resp("mark_order_paid", "PermissionDenied")
         /\ UNCHANGED inflight
         /\ UNCHANGED <<kettlebells, sessions, basketItems, orders>>
    ELSE /\ orders' = [orders EXCEPT ![n] = PaidOrder(@)]
         /\ sessions' = [sessions EXCEPT ![s] = DropPending(@, n)]
         /\ basketItems' = IF IsAuthenticated(s)
                           THEN BasketAfterPayment(basketItems, sessions[s].user)
                           ELSE basketItems
         /\ response' = Resp("mark_order_paid", "ok")
         /\ UNCHANGED inflight
         /\ UNCHANGED kettlebells

\* (mutant: every event type is treated as a payment confirmation)
HandledEvents_All ==
    {"checkout.session.completed", "payment_intent.succeeded",
     "charge.refunded"}

HandledEvents == {"checkout.session.completed", "payment_intent.succeeded"}
EventKinds == HandledEvents \cup {"charge.refunded"}

Webhook(kind, n) ==
    IF kind \in HandledEvents /\ n # NoOrder /\ OrderExists(n)
    THEN /\ orders' = [orders EXCEPT ![n] = PaidOrder(@)]
         /\ basketItems' = IF orders[n].profile # NoUser
                           THEN BasketAfterPayment(basketItems, orders[n].profile)
                           ELSE basketItems
         /\ response' = Resp("webhook", "ok")
         /\ UNCHANGED inflight
         /\ UNCHANGED <<kettlebells, sessions>>
    ELSE /\ response' = Resp("webhook", "ignored")
         /\ UNCHANGED inflight
         /\ UNCHANGED <<kettlebells, sessions, basketItems, orders>>

\* (mutant: an order of any status can be cancelled)
Cancellable_Always(o) == TRUE

\* only allow cancelling pending orders
Cancellable(o) == o.status = STATUS_PENDING

\* cancel_order after Order.objects.get: o is the instance read for order n;
\* the save writes every field of o
CancelWrite(s, n, o) ==
    IF ~Cancellable(o)
    THEN /\ response' = Resp("cancel_order", "InvalidStateTransition")
         /\ UNCHANGED <<kettlebells, sessions, basketItems, orders>>
    ELSE IF ~PermittedOn(s, n, o)
    THEN /\ response' = Resp("cancel_order", "PermissionDenied")
         /\ UNCHANGED <<kettlebells, sessions, basketItems, orders>>
    ELSE /\ orders' = [orders EXCEPT ![n] =
                         [o EXCEPT !.status = STATUS_FAILED, !.paid = FALSE]]
         /\ sessions' = [sessions EXCEPT ![s] =
                           IF IsAuthenticated(s) THEN DropPending(@, n)
                           ELSE [DropPending(@, n) EXCEPT !.basket = <<>>]]
         /\ basketItems' = IF IsAuthenticated(s)
                           THEN [basketItems EXCEPT ![sessions[s].user] = <<>>]
                           ELSE basketItems
         /\ response' = Resp("cancel_order", "ok")
         /\ UNCHANGED kettlebells

CancelOrder(s, n) ==
    IF ~OrderExists(n)
    THEN /\ response' = Resp("cancel_order", "NotFound")
         /\ UNCHANGED <<kettlebells, sessions, basketItems, orders, inflight>>
    ELSE /\ CancelWrite(s, n, orders[n])
         /\ UNCHANGED inflight

\* admin action: queryset.update(status=DISPATCHED) on the selected order
MarkAsDispatched(n) ==
    /\ OrderExists(n)
    /\ orders' = [orders EXCEPT ![n].status = STATUS_DISPATCHED]
    /\ response' = Resp("mark_as_dispatched", "ok")
    /\ UNCHANGED inflight
    /\ UNCHANGED <<kettlebells, sessions, basketItems>>

\* ------------------------------------------------------ stock adjuster
\* _parse_weight_unit_from_name: first token as a number, second as unit
ParsedWeight(name) == IF Len(name) = 0 THEN -1 ELSE DecimalOf(name[1])
ParsedUnit(name) ==
    IF Len(name) > 1 /\ name[2] \in {"kg", "lb"} THEN name[2] ELSE "kg"

\* (mutant: a line that resolves to nothing is charged to the first product)
ResolveProduct_Fallback(li) ==
    IF li.product # NoProduct THEN li.product
    ELSE IF ParsedWeight(li.product_name) = -1 THEN 1
    ELSE IF ParsedUnit(li.product_name) # "kg" THEN 1
    ELSE IF ProductByWeight(ParsedWeight(li.product_name)) = NoProduct THEN 1
    ELSE ProductByWeight(ParsedWeight(li.product_name))

\* the product a line item resolves to: the explicit reference first, the
\* parsed name as fallback
ResolveProduct(li) ==
    IF li.product # NoProduct THEN li.product
    ELSE IF ParsedWeight(li.product_name) = -1 THEN NoProduct
    ELSE IF ParsedUnit(li.product_name) # "kg" THEN NoProduct
    ELSE ProductByWeight(ParsedWeight(li.product_name))

Max0(x) == IF x > 0 THEN x ELSE 0

\* (mutant: the decrement without the clamp)
DecrementedStock_Unclamped(stock, qty) == stock - qty

\* kb.stock = max(0, int(kb.stock) - qty)
DecrementedStock(stock, qty) == Max0(stock - qty)

\* the loop over the order's line items, applied to the product table
RECURSIVE AdjustStock(_, _)
AdjustStock(kbs, items) ==
    IF Len(items) = 0 THEN kbs
    ELSE LET li == items[1]
             p == ResolveProduct(li)
             next == IF li.quantity <= 0 \/ p = NoProduct THEN kbs
                     ELSE [kbs EXCEPT ![p].stock =
                             DecrementedStock(@, li.quantity)]
         IN AdjustStock(next, Tail(items))

\* (mutant: the stock_adjusted guard is missing)
AlreadyAdjusted_Never(o) == FALSE

\* the early return of apply_order_stock_adjustment
AlreadyAdjusted(o) == o.stock_adjusted

ApplyOrderStockAdjustment(n) ==
    /\ OrderExists(n)
    /\ IF AlreadyAdjusted(orders[n])
       THEN /\ response' = Resp("apply_order_stock_adjustment", "skipped")
            /\ UNCHANGED inflight
            /\ UNCHANGED <<kettlebells, sessions, basketItems, orders>>
       ELSE /\ kettlebells' = AdjustStock(kettlebells, orders[n].items)
            /\ orders' = [orders EXCEPT ![n].stock_adjusted = TRUE]
            /\ response' = Resp("apply_order_stock_adjustment", "ok")
            /\ UNCHANGED inflight
            /\ UNCHANGED <<sessions, basketItems>>

\* --------------------------------------------- merge on login (signal)
\* (mutant: an existing row takes the session quantity instead of the sum)
MergeEntry_Overwrite(rows, e) ==
    LET w == IntOf(e.key)
        p == IF w = -1 THEN NoProduct ELSE ProductByWeight(w)
    IN IF p = NoProduct \/ e.quantity <= 0 THEN rows
       ELSE IF RowHas(rows, p)
       THEN [rows EXCEPT ![RowIdx(rows, p)] =
               [@ EXCEPT !.quantity = e.quantity,
                         !.price_snapshot = kettlebells[p].price_gbp]]
       ELSE Append(rows, [product |-> p, quantity |-> e.quantity,
                          price_snapshot |-> kettlebells[p].price_gbp])

\* (mutant: the quantity of a session entry is not looked at)
MergeEntry_AnyQuantity(rows, e) ==
    LET w == IntOf(e.key)
        p == IF w = -1 THEN NoProduct ELSE ProductByWeight(w)
    IN IF p = NoProduct THEN rows
       ELSE IF RowHas(rows, p)
       THEN [rows EXCEPT ![RowIdx(rows, p)] =
               [@ EXCEPT !.quantity = @ + e.quantity,
                         !.price_snapshot = kettlebells[p].price_gbp]]
       ELSE Append(rows, [product |-> p, quantity |-> e.quantity,
                          price_snapshot |-> kettlebells[p].price_gbp])

\* one session entry upserted into the durable rows
MergeEntry(rows, e) ==
    LET w == IntOf(e.key)
        p == IF w = -1 THEN NoProduct ELSE ProductByWeight(w)
    IN IF p = NoProduct \/ e.quantity <= 0 THEN rows
       ELSE IF RowHas(rows, p)
       THEN [rows EXCEPT ![RowIdx(rows, p)] =
               [@ EXCEPT !.quantity = @ + e.quantity,
                         !.price_snapshot = kettlebells[p].price_gbp]]
       ELSE Append(rows, [product |-> p, quantity |-> e.quantity,
                          price_snapshot |-> kettlebells[p].price_gbp])

RECURSIVE MergeRows(_, _)
MergeRows(rows, basket) ==
    IF Len(basket) = 0 THEN rows
    ELSE MergeRows(MergeEntry(rows, basket[1]), Tail(basket))

\* (mutant: the merge leaves the session basket in place)
SessionAfterMerge_KeepBasket(sess, u) ==
    [sess EXCEPT !.user = u, !.basket_merged = TRUE]

\* the session after the merge: basket key deleted, 'basket_merged' set
SessionAfterMerge(sess, u) ==
    [sess EXCEPT !.user = u, !.basket = <<>>, !.basket_merged = TRUE]

\* user_logged_in: the visitor becomes the user and merge_session_basket runs
Login(s, u) ==
    /\ ~IsAuthenticated(s)
    /\ IF Len(sessions[s].basket) = 0
       THEN /\ sessions' = [sessions EXCEPT ![s].user = u]
            /\ UNCHANGED basketItems
       ELSE /\ basketItems' = [basketItems EXCEPT ![u] =
                                 MergeRows(@, sessions[s].basket)]
            /\ sessions' = [sessions EXCEPT
                              ![s] = SessionAfterMerge(@, u)]
    /\ response' = Resp("login", "ok")
    /\ UNCHANGED inflight
    /\ UNCHANGED <<kettlebells, orders>>

ClearMergeFlag(s) ==
    /\ sessions[s].basket_merged
    /\ sessions' = [sessions EXCEPT ![s].basket_merged = FALSE]
    /\ response' = Resp("clear_merge_flag", "ok")
    /\ UNCHANGED inflight
    /\ UNCHANGED <<kettlebells, basketItems, orders>>

\* ------------------------------------------------------ basket updates
\* (mutant: the row is kept with quantity 0 instead of being deleted)
RowDelete_StoreZero(rows, p) == [rows EXCEPT ![RowIdx(rows, p)].quantity = 0]

\* item.delete()
RowDelete(rows, p) == SelectSeq(rows, LAMBDA r : r.product # p)
RowSetQty(rows, p, q) == [rows EXCEPT ![RowIdx(rows, p)].quantity = q]

\* update_item (login_required): the row of product p of the user's basket
UpdateItem(s, p, q) ==
    /\ IsAuthenticated(s)
    /\ LET u == sessions[s].user
       IN IF ~RowHas(basketItems[u], p)
          THEN /\ response' = Resp("update_item", "NotFound")
               /\ UNCHANGED inflight
               /\ UNCHANGED basketItems
          ELSE /\ basketItems' = [basketItems EXCEPT ![u] =
                                    IF q <= 0 THEN RowDelete(@, p)
                                    ELSE RowSetQty(@, p, q)]
               /\ response' = Resp("update_item", "ok")
               /\ UNCHANGED inflight
    /\ UNCHANGED <<kettlebells, sessions, orders>>

\* basket_update_api with an item_id (authenticated)
BasketUpdateItem(s, p, q) ==
    /\ IsAuthenticated(s)
    /\ LET u == sessions[s].user
       IN IF ~RowHas(basketItems[u], p)
          THEN /\ response' = Resp("basket_update_api", "NotFound")
               /\ UNCHANGED inflight
               /\ UNCHANGED basketItems
          ELSE IF q > 0 /\ q > kettlebells[p].stock
          THEN /\ response' = Resp("basket_update_api", "InsufficientStock")
               /\ UNCHANGED inflight
               /\ UNCHANGED basketItems
          ELSE /\ basketItems' = [basketItems EXCEPT ![u] =
                                    IF q <= 0 THEN RowDelete(@, p)
                                    ELSE RowSetQty(@, p, q)]
               /\ response' = Resp("basket_update_api", "ok")
               /\ UNCHANGED inflight
    /\ UNCHANGED <<kettlebells, sessions, orders>>

\* basket_update_api with a weight key (session entry)
BasketUpdateSession(s, key, q) ==
    LET basket == sessions[s].basket
        w == DecimalOf(key)
        p == IF w = -1 THEN NoProduct ELSE ProductByWeight(w)
    IN /\ IF ~DictHas(basket, key)
          THEN /\ response' = Resp("basket_update_api", "NotFound")
               /\ UNCHANGED inflight
               /\ UNCHANGED sessions
          ELSE IF q > 0 /\ p # NoProduct /\ q > kettlebells[p].stock
          THEN /\ response' = Resp("basket_update_api", "InsufficientStock")
               /\ UNCHANGED inflight
               /\ UNCHANGED sessions
          ELSE /\ sessions' = [sessions EXCEPT ![s].basket =
                                 IF q <= 0 THEN DictPop(@, key)
                                 ELSE [@ EXCEPT ![DictIdx(@, key)].quantity = q]]
               /\ response' = Resp("basket_update_api", "ok")
               /\ UNCHANGED inflight
       /\ UNCHANGED <<kettlebells, basketItems, orders>>

\* (mutant: only the session basket is cleared, whoever asks)
ClearBasketApi_SessionOnly(s) ==
    /\ sessions' = [sessions EXCEPT ![s].basket = <<>>]
    /\ response' = Resp("clear_basket_api", "ok")
    /\ UNCHANGED <<kettlebells, basketItems, orders, inflight>>

ClearBasketApi(s) ==
    /\ IF IsAuthenticated(s)
       THEN /\ basketItems' = [basketItems EXCEPT ![sessions[s].user] = <<>>]
            /\ UNCHANGED sessions
       ELSE /\ sessions' = [sessions EXCEPT ![s].basket = <<>>]
            /\ UNCHANGED basketItems
    /\ response' = Resp("clear_basket_api", "ok")
    /\ UNCHANGED inflight
    /\ UNCHANGED <<kettlebells, orders>>

\* ---------------------------------------------------- checkout_success
JsonLoads(text) == text

\* (mutant: the session basket is cleared whatever the snapshot holds)
SnapshotMatches_Always(orig, basket) == TRUE

\* orig and orig == request.session.get('basket', {})
SnapshotMatches(orig, basket) == Len(orig) > 0 /\ DictEq(orig, basket)

CheckoutSuccess(s, n) ==
    IF ~OrderExists(n)
    THEN /\ response' = Resp("checkout_success", "NotFound")
         /\ UNCHANGED inflight
         /\ UNCHANGED <<kettlebells, sessions, basketItems, orders>>
    ELSE /\ IF IsAuthenticated(s)
            THEN /\ basketItems' =
                      IF orders[n].profile = sessions[s].user
                      THEN [basketItems EXCEPT ![sessions[s].user] = <<>>]
                      ELSE basketItems
                 /\ UNCHANGED sessions
            ELSE /\ sessions' =
                      LET orig == JsonLoads(orders[n].original_basket)
                      IN IF SnapshotMatches(orig, sessions[s].basket)
                         THEN [sessions EXCEPT ![s].basket = <<>>]
                         ELSE sessions
                 /\ UNCHANGED basketItems
         /\ response' = Resp("checkout_success", "ok")
         /\ UNCHANGED inflight
         /\ UNCHANGED <<kettlebells, orders>>

\* ------------------------------------------------------ specifications
ProductsOf(W) == {p \in Products : Weight(p) \in W}

\* requests of the visitors S about the weights W with quantities up to Q
BasketStep(S, W, Q) ==
    \/ \E s \in S, w \in W, q \in 0..Q : AddToBasket(s, w, q)
    \/ \E s \in S, u \in Users : Login(s, u)
    \/ \E s \in S : ClearMergeFlag(s)
    \/ \E s \in S, p \in ProductsOf(W), q \in 0..Q : UpdateItem(s, p, q)
    \/ \E s \in S, p \in ProductsOf(W), q \in 0..Q : BasketUpdateItem(s, p, q)
    \/ \E s \in S, k \in {WeightKey(w) : w \in W}, q \in 0..Q : BasketUpdateSession(s, k, q)
    \/ \E s \in S : ClearBasketApi(s)

CheckoutStep(S) ==
    \/ \E s \in S, valid \in BOOLEAN : Checkout(s, valid)
    \/ \E s \in S, n \in 1..MaxOrders : CheckoutSuccess(s, n)
    \/ \E s \in S, n \in 1..MaxOrders : CancelOrder(s, n)

PaymentStep(S) ==
    \/ \E s \in S, n \in 1..MaxOrders : MarkOrderPaid(s, n)
    \/ \E kind \in EventKinds, n \in 0..MaxOrders : Webhook(kind, n)
    \/ \E n \in 1..MaxOrders : MarkAsDispatched(n)
    \/ \E n \in 1..MaxOrders : ApplyOrderStockAdjustment(n)

\* the order life cycle: one visitor (anonymous, later logged in), one
\* product, every handler
Next ==
    \/ BasketStep(OrderSessions, {Weight(1), UnknownWeight}, OrderQty)
    \/ CheckoutStep(OrderSessions)
    \/ PaymentStep(OrderSessions)

Spec == Init /\ [][Next]_vars

\* basket to order: one visitor, two products, checkout / success / cancel,
\* responses recorded
InitCheckout == InitWith(OrderStock, TRUE)

NextCheckout ==
    \/ \E s \in OrderSessions, w \in RequestWeights, q \in 0..OrderQty :
          AddToBasket(s, w, q)
    \/ \E s \in OrderSessions, u \in Users : Login(s, u)
    \/ \E s \in OrderSessions, p \in Products, q \in 0..OrderQty :
          UpdateItem(s, p, q)
    \/ \E s \in OrderSessions : ClearBasketApi(s)
    \/ CheckoutStep(OrderSessions)

SpecCheckout == InitCheckout /\ [][NextCheckout]_vars

\* payment confirmation and stock adjustment: one visitor, one product with
\* more stock than one order line takes
NextPayment ==
    \/ \E s \in OrderSessions, q \in 1..OrderQty : AddToBasket(s, Weight(1), q)
    \/ \E s \in OrderSessions, u \in Users : Login(s, u)
    \/ \E s \in OrderSessions : Checkout(s, TRUE)
    \/ PaymentStep(OrderSessions)

SpecPayment == InitPayment /\ [][NextPayment]_vars

\* ---- requests in flight: checkout and cancel_order read the order, and
\* save it later; other requests run between the read and the save
\* checkout up to its lookup of the order to reuse (form valid)
CheckoutLoad(s) ==
    /\ Idle(s)
    /\ inflight' = [inflight EXCEPT ![s] =
                      [op |-> "checkout", n |-> ExistingOrder(s),
                       order |-> CheckoutBase(ExistingOrder(s))]]
    /\ UNCHANGED <<kettlebells, sessions, basketItems, orders, response>>

\* checkout from order.save() to the end
CheckoutSave(s) ==
    /\ inflight[s].op = "checkout"
    /\ CheckoutWrite(s, inflight[s].n, inflight[s].order)
    /\ inflight' = [inflight EXCEPT ![s] = NoRequest]

\* cancel_order up to Order.objects.get
CancelLoad(s, n) ==
    /\ Idle(s)
    /\ OrderExists(n)
    /\ inflight' = [inflight EXCEPT ![s] =
                      [op |-> "cancel_order", n |-> n, order |-> orders[n]]]
    /\ UNCHANGED <<kettlebells, sessions, basketItems, orders, response>>

\* cancel_order from its status check to the end
CancelSave(s) ==
    /\ inflight[s].op = "cancel_order"
    /\ CancelWrite(s, inflight[s].n, inflight[s].order)
    /\ inflight' = [inflight EXCEPT ![s] = NoRequest]

\* a visitor's own basket request, made while none of theirs is in flight
AddWhenIdle(s, w, q) == Idle(s) /\ AddToBasket(s, w, q)

\* one anonymous visitor whose checkout and cancel requests overlap the
\* payment gateway's confirmations and the stock adjustment
NextConc ==
    \/ \E s \in OrderSessions, q \in 1..OrderQty : AddWhenIdle(s, Weight(1), q)
    \/ \E s \in OrderSessions : CheckoutLoad(s)
    \/ \E s \in OrderSessions : CheckoutSave(s)
    \/ \E s \in OrderSessions, n \in 1..MaxOrders : CancelLoad(s, n)
    \/ \E s \in OrderSessions : CancelSave(s)
    \/ \E kind \in EventKinds, n \in 0..MaxOrders : Webhook(kind, n)
    \/ \E n \in 1..MaxOrders : ApplyOrderStockAdjustment(n)

SpecConc == InitPayment /\ [][NextConc]_vars

\* the order life cycle with responses recorded: one visitor, one product,
\* checkout, cancel, payment confirmation and dispatch
NextCancel ==
    \/ \E s \in OrderSessions, q \in 1..OrderQty : AddToBasket(s, Weight(1), q)
    \/ \E s \in OrderSessions, u \in Users : Login(s, u)
    \/ \E s \in OrderSessions : Checkout(s, TRUE)
    \/ \E s \in OrderSessions, n \in 1..MaxOrders : CancelOrder(s, n)
    \/ \E s \in OrderSessions, n \in 1..MaxOrders : MarkOrderPaid(s, n)
    \/ \E kind \in EventKinds, n \in 0..MaxOrders : Webhook(kind, n)
    \/ \E n \in 1..MaxOrders : MarkAsDispatched(n)

SpecCancel == InitCheckout /\ [][NextCancel]_vars

\* the catalogue prices the shop's admin may set
Prices == {InitialPrice(p) : p \in Products}

\* KettlebellAdmin: the admin saves a product with another price
AdminSetPrice(p, pr) ==
    /\ kettlebells[p].price_gbp # pr
    /\ kettlebells' = [kettlebells EXCEPT ![p].price_gbp = pr]
    /\ response' = Resp("kettlebell_admin", "ok")
    /\ UNCHANGED <<sessions, basketItems, orders, inflight>>

\* merge on login: two visitors of the same user, two products whose prices
\* change between the add and the login
NextMerge ==
    \/ \E s \in Sessions, w \in RequestWeights, q \in 1..MaxQty :
          AddToBasket(s, w, q)
    \/ \E s \in Sessions, u \in Users : Login(s, u)
    \/ \E p \in Products, pr \in Prices : AdminSetPrice(p, pr)

SpecMerge == InitBasket /\ [][NextMerge]_vars

\* quantity updates that may ask for more than the stock
UpdateQty == MaxStock + 1

NextUpdate == BasketStep(OrderSessions, RequestWeights, UpdateQty)

SpecUpdate == InitBasket /\ [][NextUpdate]_vars

\* ---- the stock adjuster alone, on orders with any mix of line items
\* str(kb) of the catalogue products
CatalogueName(p) == <<WeightText(Weight(p)), "kg", PriceText(InitialPrice(p))>>

\* product names that name no product: free text, an unknown weight, a
\* known weight in another unit, an empty name
UnresolvableNames ==
    {<<"Some", "unknown", "product">>, <<"99.00", "kg", "kettlebell">>,
     <<"16.00", "lb">>, <<>>}

\* one order of up to MaxLines OrderLineItem rows: product reference (or
\* none), product_name, quantity

InitAdjust ==
    /\ kettlebells = [p \in Products |->
                        [stock |-> MaxStock, price_gbp |-> InitialPrice(p)]]
    /\ sessions = [s \in Sessions |->
                     [user |-> NoUser, basket |-> <<>>,
                      pending_order_number |-> NoOrder,
                      basket_merged |-> FALSE]]
    /\ basketItems = [u \in Users |-> <<>>]
    /\ \E items \in
          LET LineNames ==
                  {CatalogueName(p) : p \in Products} \cup UnresolvableNames
              LineItems ==
                  [product : Products \cup {NoProduct}, product_name : LineNames,
                   quantity : 1..MaxQty, price : {InitialPrice(1)}]
          IN UNION {[1..k -> LineItems] : k \in 0..MaxLines} :
          orders = <<[NewOrder EXCEPT !.items = items]>>
    /\ response = NoResponse
    /\ inflight = [s \in Sessions |-> NoRequest]

NextAdjust == \E n \in 1..MaxOrders : ApplyOrderStockAdjustment(n)

SpecAdjust == InitAdjust /\ [][NextAdjust]_vars

\* ---- the stock adjuster called by two overlapping confirmations: each
\* caller hands in the Order instance it read earlier (slots s1 and s2)
\* the caller's read of the order that it passes to the adjuster
AdjustLoad(c, n) ==
    /\ Idle(c)
    /\ OrderExists(n)
    /\ inflight' = [inflight EXCEPT ![c] =
                      [op |-> "apply_order_stock_adjustment", n |-> n,
                       order |-> orders[n]]]
    /\ UNCHANGED <<kettlebells, sessions, basketItems, orders, response>>

\* apply_order_stock_adjustment(order): the guard looks at the instance,
\* the loop at the line items and product rows of the database
AdjustApply(c) ==
    /\ inflight[c].op = "apply_order_stock_adjustment"
    /\ LET n == inflight[c].n
       IN IF AlreadyAdjusted(inflight[c].order)
          THEN /\ response' = Resp("apply_order_stock_adjustment", "skipped")
               /\ UNCHANGED <<kettlebells, orders>>
          ELSE /\ kettlebells' = AdjustStock(kettlebells, orders[n].items)
               /\ orders' = [orders EXCEPT ![n].stock_adjusted = TRUE]
               /\ response' = Resp("apply_order_stock_adjustment", "ok")
    /\ inflight' = [inflight EXCEPT ![c] = NoRequest]
    /\ UNCHANGED <<sessions, basketItems>>

NextAdjustRace ==
    \/ \E c \in Sessions, n \in 1..MaxOrders : AdjustLoad(c, n)
    \/ \E c \in Sessions : AdjustApply(c)

SpecAdjustRace == InitAdjust /\ [][NextAdjustRace]_vars

\* ---- one owner logged in on two sessions whose checkouts overlap
LoginWhenIdle(s, u) == Idle(s) /\ Login(s, u)

NextCheckoutRace ==
    \/ \E s \in Sessions, q \in 1..OrderQty : AddWhenIdle(s, Weight(1), q)
    \/ \E s \in Sessions, u \in Users : LoginWhenIdle(s, u)
    \/ \E s \in Sessions : CheckoutLoad(s)
    \/ \E s \in Sessions : CheckoutSave(s)

SpecCheckoutRace == InitCheckout /\ [][NextCheckoutRace]_vars

\* ---- one owner logged in on two sessions whose add_to_basket requests
\* overlap: the request reads its session first, the transaction runs later
\* add_to_basket up to transaction.atomic(): the session basket is read
AddLoad(s, w, q) ==
    /\ Idle(s)
    /\ IsAuthenticated(s)
    /\ inflight' = [inflight EXCEPT ![s] =
                      [op |-> "add_to_basket", n |-> NoOrder, w |-> w, q |-> q,
                       basket |-> sessions[s].basket,
                       rows |-> basketItems[sessions[s].user]]]
    /\ UNCHANGED <<kettlebells, sessions, basketItems, orders, response>>

\* (mutant: the rows are the ones seen before the transaction, no lock)
LockedRows_AtLoad(s) == inflight[s].rows

\* BasketItem...select_for_update() inside the transaction: the rows as
\* they are once the product-row lock is held
LockedRows(s) == basketItems[sessions[s].user]

\* add_to_basket from transaction.atomic() to the response
AddCommit(s) ==
    /\ inflight[s].op = "add_to_basket"
    /\ AddAuthWrite(s, inflight[s].w, inflight[s].q, inflight[s].basket,
                    LockedRows(s))
    /\ inflight' = [inflight EXCEPT ![s] = NoRequest]

NextAddRace ==
    \/ \E s \in Sessions, u \in Users : LoginWhenIdle(s, u)
    \/ \E s \in Sessions, w \in RequestWeights, q \in 1..MaxQty :
          AddLoad(s, w, q)
    \/ \E s \in Sessions : AddCommit(s)

SpecAddRace == InitBasket /\ [][NextAddRace]_vars

\* ---- add_to_basket whose durable write raises (database error)
\* the request passed the stock check and wrote request.session['basket'];
\* existing_item.save() / BasketItem.objects.create() then raises, the
\* transaction rolls back and 'Could not add to basket' is answered
AddToBasketDbError(s, w, q) ==
    LET p == ProductByWeight(w)
        key == WeightKey(w)
        basket == sessions[s].basket
        sessQty == DictQty(basket, key)
        dbQty == RowQty(basketItems[sessions[s].user], p)
        stock == kettlebells[p].stock
        stale == StaleDrop(sessQty, dbQty, q, stock)
        sessAfterStale == IF stale THEN 0 ELSE sessQty
        basket0 == IF stale THEN DictPop(basket, key) ELSE basket
    IN /\ IsAuthenticated(s)
       /\ q >= 1
       /\ p # NoProduct
       /\ AuthTotalAfter(sessQty, dbQty, q, stock) <= stock
       /\ sessions' = [sessions EXCEPT ![s].basket =
                         DictSet(basket0, key, sessAfterStale + q,
                                 kettlebells[p].price_gbp)]
       /\ response' = Resp("add_to_basket", "CouldNotAdd")
       /\ UNCHANGED <<kettlebells, basketItems, orders, inflight>>

NextAddFault ==
    \/ \E s \in OrderSessions, w \in RequestWeights, q \in 0..MaxQty :
          AddToBasket(s, w, q)
    \/ \E s \in OrderSessions, u \in Users : Login(s, u)
    \/ \E s \in OrderSessions, w \in RequestWeights, q \in 1..MaxQty :
          AddToBasketDbError(s, w, q)

SpecAddFault == InitBasket /\ [][NextAddFault]_vars

\* ---- order reuse over several checkouts: one visitor who changes the
\* session basket between checkouts, up to ReuseOrders orders
CheckoutAgain(s) ==
    /\ CheckoutWriteUpTo(s, ExistingOrder(s), CheckoutBase(ExistingOrder(s)),
                         ReuseOrders)
    /\ UNCHANGED inflight

NextReuse ==
    \/ \E s \in OrderSessions, p \in Products, q \in 1..OrderQty :
          AddToBasket(s, Weight(p), q)
    \/ \E s \in OrderSessions, u \in Users : Login(s, u)
    \/ \E s \in OrderSessions, p \in Products :
          BasketUpdateSession(s, WeightKey(Weight(p)), 0)
    \/ \E s \in OrderSessions : CheckoutAgain(s)

SpecReuse == InitCheckout /\ [][NextReuse]_vars

\* the basket engine alone: two visitors, two products, no orders
NextBasket == BasketStep(Sessions, RequestWeights, MaxQty)

SpecBasket == InitBasket /\ [][NextBasket]_vars

\* ================================================================ claims

Stock(p) == kettlebells[p].stock

\* C1: in every reachable state every product's stock is >= 0; a stock
\* adjustment for more than the remaining stock leaves 0
C1_StockNeverNegative == \A p \in Products : Stock(p) >= 0

\* two adjusted orders, each with a line of the product, have asked for more
\* than the initial stock: the second adjustment was clamped at 0
C1_Witness ==
    \E n, m \in 1..Len(orders) :
        /\ n # m
        /\ orders[n].stock_adjusted /\ orders[m].stock_adjusted
        /\ \E i \in 1..Len(orders[n].items), j \in 1..Len(orders[m].items) :
              /\ ResolveProduct(orders[n].items[i]) = 1
              /\ ResolveProduct(orders[m].items[j]) = 1
              /\ orders[n].items[i].quantity + orders[m].items[j].quantity
                    > OrderStock
        /\ Stock(1) = 0

\* a step that processes a payment confirmation for order n: mark_order_paid
\* by a permitted requester, or a handled webhook event naming the order
PaymentConfirmation(n) ==
    \/ \E s \in OrderSessions : Permitted(s, n) /\ MarkOrderPaid(s, n)
    \/ \E kind \in HandledEvents : Webhook(kind, n)

\* C2: a payment confirmation processed for an order whose stock_adjusted is
\* false leaves the order paid, PAID and stock_adjusted, and every resolvable
\* line's product at max(0, stock - quantity)
C2_ConfirmationAdjustsStock ==
    [][\A n \in 1..MaxOrders :
          (OrderExists(n) /\ ~orders[n].stock_adjusted /\ PaymentConfirmation(n))
            => /\ orders'[n].paid
               /\ orders'[n].status = STATUS_PAID
               /\ orders'[n].stock_adjusted
               /\ kettlebells' = AdjustStock(kettlebells, orders[n].items)]_vars

AlreadyConfirmed(n) == orders[n].paid /\ orders[n].status = STATUS_PAID

\* C3: processing a payment confirmation again (mark_order_paid or a webhook
\* delivery for an order already confirmed, or the stock adjustment for an
\* order already adjusted) leaves every product's stock as it was after the
\* first processing
C3_ConfirmationIdempotent ==
    [][\A n \in 1..MaxOrders :
          OrderExists(n) =>
            /\ (AlreadyConfirmed(n) /\ PaymentConfirmation(n))
                  => kettlebells' = kettlebells
            /\ (orders[n].stock_adjusted /\ ApplyOrderStockAdjustment(n))
                  => kettlebells' = kettlebells]_vars

\* the only order, an anonymous one with a line that took stock, was confirmed
\* by mark_order_paid (the pending token is gone) and then again by a webhook
\* delivery, with stock left that a second decrement would take
C3_Witness ==
    /\ response = [op |-> "webhook", res |-> "ok"]
    /\ Len(orders) = 1
    /\ orders[1].profile = NoUser
    /\ \A s \in OrderSessions : sessions[s].pending_order_number = NoOrder
    /\ AlreadyConfirmed(1) /\ orders[1].stock_adjusted
    /\ Len(orders[1].items) > 0
    /\ Stock(1) > 0 /\ Stock(1) < PaymentStock

\* a successful submission of the checkout form by visitor s
CheckoutSubmitted(s) == Checkout(s, TRUE)

\* the orders of the owner (the user's profile) or, for an anonymous visitor,
\* the order the session remembers
OrdersOf(s, os, sess) ==
    IF IsAuthenticated(s)
    THEN {n \in 1..Len(os) : os[n].profile = sessions[s].user}
    ELSE {n \in 1..Len(os) : n = sess[s].pending_order_number}

\* C4: a checkout submitted directly after a checkout, with the basket
\* unchanged, reuses the PENDING order of the first: no order is added, the
\* owner / session has the same orders, and the order holds one set of line
\* items, equal to the previous set, with the total unchanged
C4_DoubleCheckoutReuses ==
    [][\A s \in OrderSessions :
          (/\ response.op = "checkout"
           /\ response.res \in {"created", "reused"}
           /\ CheckoutSubmitted(s))
            => LET n == sessions[s].pending_order_number
               IN /\ Len(orders') = Len(orders)
                  /\ sessions'[s].pending_order_number = n
                  /\ OrdersOf(s, orders', sessions') = OrdersOf(s, orders, sessions)
                  /\ orders'[n].status = STATUS_PENDING
                  /\ orders'[n].items = orders[n].items
                  /\ Len(orders'[n].items) = Len(CheckoutItems(s))
                  /\ orders'[n].total = orders[n].total]_vars

\* the owner's only order was reused by a checkout and holds the two line
\* items of the owner's two durable rows
C4_Witness ==
    /\ response = [op |-> "checkout", res |-> "reused"]
    /\ Len(orders) = 1
    /\ \E s \in OrderSessions :
          /\ IsAuthenticated(s)
          /\ orders[1].profile = sessions[s].user
          /\ Len(basketItems[sessions[s].user]) = 2
          /\ Len(orders[1].items) = 2

\* the basket entries an order is built from: the durable rows of an
\* authenticated owner, the session entries of an anonymous visitor, each
\* with its quantity and unit-price snapshot
BasketEntries(s) ==
    IF IsAuthenticated(s)
    THEN LET rows == basketItems[sessions[s].user]
         IN [i \in 1..Len(rows) |->
               [quantity |-> rows[i].quantity, price |-> rows[i].price_snapshot]]
    ELSE LET basket == sessions[s].basket
         IN [i \in 1..Len(basket) |->
               [quantity |-> basket[i].quantity, price |-> basket[i].price_gbp]]

RECURSIVE SumUpTo(_, _)
SumUpTo(es, k) ==
    IF k = 0 THEN 0 ELSE es[k].price * es[k].quantity + SumUpTo(es, k - 1)

\* C5: after a successful checkout (new or reused order) the order has one
\* line item per basket entry, each with the entry's quantity and unit price,
\* and its total is the sum of unit price x quantity over them
C5_LineItemsAndTotal ==
    [][\A s \in OrderSessions :
          CheckoutSubmitted(s)
            => LET n == sessions'[s].pending_order_number
                   es == BasketEntries(s)
               IN /\ n \in 1..Len(orders')
                  /\ Len(orders'[n].items) = Len(es)
                  /\ \A i \in 1..Len(es) :
                        /\ orders'[n].items[i].quantity = es[i].quantity
                        /\ orders'[n].items[i].price = es[i].price
                  /\ orders'[n].total = SumUpTo(es, Len(es))]_vars

\* a reused order of an anonymous visitor with two line items of different
\* unit prices and the total of both
C5_Witness ==
    /\ response = [op |-> "checkout", res |-> "reused"]
    /\ \E s \in OrderSessions :
          /\ ~IsAuthenticated(s)
          /\ Len(sessions[s].basket) = 2
          /\ LET o == orders[sessions[s].pending_order_number]
             IN /\ Len(o.items) = 2
                /\ o.items[1].price # o.items[2].price
                /\ o.total = InitialPrice(1) + InitialPrice(2)

\* C10: a successful checkout leaves the basket it was built from (session
\* basket and durable rows) and every product's stock unchanged; the order it
\* wrote is PENDING, the session's pending-order token names it, and no other
\* order changed
C10_CheckoutKeepsBasket ==
    [][\A s \in OrderSessions :
          CheckoutSubmitted(s)
            => LET n == sessions'[s].pending_order_number
               IN /\ sessions'[s].basket = sessions[s].basket
                  /\ basketItems' = basketItems
                  /\ kettlebells' = kettlebells
                  /\ n \in 1..Len(orders')
                  /\ orders'[n].status = STATUS_PENDING
                  /\ orders'[n].original_basket = JsonDumps(sessions[s].basket)
                  /\ \A m \in 1..Len(orders) : m # n => orders'[m] = orders[m]]_vars

\* a checkout has just created an order from a session basket that is still
\* there, with the stock untouched and the token naming the PENDING order
C10_Witness ==
    /\ response = [op |-> "checkout", res |-> "created"]
    /\ \E s \in OrderSessions :
          /\ Len(sessions[s].basket) > 0
          /\ sessions[s].pending_order_number = Len(orders)
          /\ orders[Len(orders)].status = STATUS_PENDING
          /\ Len(orders[Len(orders)].items) = Len(sessions[s].basket)
    /\ \A p \in Products : Stock(p) = OrderStock

\* C6: an order's status changes only along PENDING -> PAID,
\* PAID -> DISPATCHED and PENDING -> FAILED; every other attempted change
\* leaves the status as it was
C6_StatusTransitions ==
    [][\A n \in 1..Len(orders) :
          orders'[n].status # orders[n].status
            => LET a == orders[n].status
                   b == orders'[n].status
               IN \/ a = STATUS_PENDING /\ b = STATUS_PAID
                  \/ a = STATUS_PAID /\ b = STATUS_DISPATCHED
                  \/ a = STATUS_PENDING /\ b = STATUS_FAILED]_vars

\* the quantities availability is computed from
OwnSessionQty(s, p) == DictQty(sessions[s].basket, WeightKey(Weight(p)))
OwnDurableQty(s, p) ==
    IF IsAuthenticated(s) THEN RowQty(basketItems[sessions[s].user], p) ELSE 0

RECURSIVE AllDurableQty(_, _)
AllDurableQty(U, p) ==
    IF U = {} THEN 0
    ELSE LET u == CHOOSE x \in U : TRUE
         IN RowQty(basketItems[u], p) + AllDurableQty(U \ {u}, p)

\* stock minus the requester's own durable row and session quantity
AvailableOwn(s, p) == Stock(p) - OwnDurableQty(s, p) - OwnSessionQty(s, p)

\* an authenticated requester whose session holds the product while the
\* durable basket has no row for it
StaleSessionEntry(s, p) ==
    IsAuthenticated(s) /\ OwnSessionQty(s, p) > 0 /\ OwnDurableQty(s, p) = 0

\* C7 as stated: with available(P) counted over all durable rows,
\* add_to_basket of available(P)+1 is rejected as insufficient stock and of
\* exactly available(P) (at least 1) is accepted
C7_AvailableOverAllRows ==
    [][response'.op = "add_to_basket" =>
          \A s \in Sessions, p \in Products :
             LET a == Stock(p) - AllDurableQty(Users, p) - OwnSessionQty(s, p)
             IN /\ (a + 1 \in 1..MaxQty /\ AddToBasket(s, Weight(p), a + 1))
                      => response'.res = "InsufficientStock"
                /\ (a \in 1..MaxQty /\ AddToBasket(s, Weight(p), a))
                      => response'.res = "ok"]_vars

\* C7 (amended): with available(P) = stock(P) minus the requester's own
\* durable row for P minus the requester's own session quantity for P,
\* add_to_basket of available(P)+1 (at least 1) is rejected as insufficient
\* stock, except for an authenticated requester with a session quantity and
\* no durable row for P, whose session entry is dropped and whose request is
\* accepted; add_to_basket of exactly available(P) (at least 1) is accepted
C7_AvailableOverOwnEntries ==
    [][response'.op = "add_to_basket" =>
          \A s \in Sessions, p \in Products :
             LET a == AvailableOwn(s, p)
             IN /\ (a + 1 \in 1..MaxQty /\ AddToBasket(s, Weight(p), a + 1))
                      => response'.res = IF StaleSessionEntry(s, p) THEN "ok"
                                         ELSE "InsufficientStock"
                /\ (a \in 1..MaxQty /\ AddToBasket(s, Weight(p), a))
                      => response'.res = "ok"]_vars

\* anonymous visitors only; one of them holds one unit of product 1 in the
\* session, the other nothing, no durable rows exist, and the last request
\* was rejected as insufficient stock: it asked for available + 1 = MaxStock
C7_Witness ==
    /\ response = [op |-> "add_to_basket", res |-> "InsufficientStock"]
    /\ \A s \in Sessions : ~IsAuthenticated(s)
    /\ \A u \in Users : basketItems[u] = <<>>
    /\ \E s \in Sessions :
          /\ OwnSessionQty(s, 1) = 1
          /\ AvailableOwn(s, 1) + 1 = MaxStock
          /\ \A r \in Sessions \ {s} : sessions[r].basket = <<>>

\* C8: for an authenticated owner add_to_basket(P, q) is accepted exactly
\* when the quantity the owner already holds for P (the durable row) plus q
\* is at most stock(P)
C8_OwnerDemandCountedOnce ==
    [][\A s \in Sessions, p \in Products, q \in 1..MaxQty :
          (IsAuthenticated(s) /\ AddToBasket(s, Weight(p), q))
            => (response'.res = "ok" <=> OwnDurableQty(s, p) + q <= Stock(p))]_vars

\* C9: once an order's stock_adjusted is true it is true in every later
\* state, whatever requests overlap the adjustment
C9_StockAdjustedNeverReset ==
    [][\A n \in 1..Len(orders) :
          orders[n].stock_adjusted => orders'[n].stock_adjusted]_vars

\* C11: cancel_order by the owner (the profile's user, or the anonymous
\* visitor whose session remembers the order) on a PENDING order sets status
\* FAILED, leaves paid false, deletes all durable rows of an authenticated
\* owner, removes the order's pending token from the session and changes no
\* product's stock
C11_CancelPending ==
    [][\A s \in OrderSessions, n \in 1..MaxOrders :
          (/\ OrderExists(n)
           /\ orders[n].status = STATUS_PENDING
           /\ Permitted(s, n)
           /\ CancelOrder(s, n))
            => /\ orders'[n].status = STATUS_FAILED
               /\ orders'[n].paid = FALSE
               /\ IsAuthenticated(s) => basketItems'[sessions[s].user] = <<>>
               /\ sessions'[s].pending_order_number # n
               /\ (sessions[s].pending_order_number = n)
                     => sessions'[s].pending_order_number = NoOrder
               /\ kettlebells' = kettlebells]_vars

\* the owner's order, built from a durable row, has just been cancelled: it
\* is FAILED and unpaid, the owner's durable basket is empty and the session
\* holds no pending token
C11_Witness ==
    /\ response = [op |-> "cancel_order", res |-> "ok"]
    /\ \E s \in OrderSessions, n \in 1..Len(orders) :
          /\ IsAuthenticated(s)
          /\ orders[n].profile = sessions[s].user
          /\ Len(orders[n].items) > 0
          /\ orders[n].status = STATUS_FAILED /\ ~orders[n].paid
          /\ basketItems[sessions[s].user] = <<>>
          /\ sessions[s].pending_order_number = NoOrder

\* C12: cancel_order on an order that is not PENDING is refused and changes
\* nothing: orders, baskets, stock and the session are as before
C12_CancelRefused ==
    [][\A s \in OrderSessions, n \in 1..MaxOrders :
          (/\ OrderExists(n)
           /\ orders[n].status # STATUS_PENDING
           /\ CancelOrder(s, n))
            => /\ response'.res = "InvalidStateTransition"
               /\ UNCHANGED <<orders, sessions, basketItems, kettlebells>>]_vars

\* a cancel was refused while the owner's PAID order and a durable row the
\* owner added afterwards are there
C12_Witness ==
    /\ response = [op |-> "cancel_order", res |-> "InvalidStateTransition"]
    /\ \E s \in OrderSessions, n \in 1..Len(orders) :
          /\ IsAuthenticated(s)
          /\ orders[n].profile = sessions[s].user
          /\ orders[n].status = STATUS_PAID /\ orders[n].paid
          /\ Len(basketItems[sessions[s].user]) > 0
          /\ \A m \in 1..Len(orders) : orders[m].status # STATUS_PENDING

\* C13: when an authenticated owner's session holds a quantity for P and no
\* durable row for P exists, add_to_basket(P, q) with q <= stock(P) succeeds,
\* creates a durable row of quantity q and leaves the session entry for P at
\* quantity q (the stale quantity is discarded); with q > stock(P) it is
\* rejected as insufficient stock
C13_StaleSessionRecovery ==
    [][response'.op = "add_to_basket" =>
          \A s \in Sessions, p \in Products, q \in 1..MaxQty :
             (StaleSessionEntry(s, p) /\ AddToBasket(s, Weight(p), q))
               => IF q <= Stock(p)
                  THEN /\ response'.res = "ok"
                       /\ RowQty(basketItems'[sessions[s].user], p) = q
                       /\ DictQty(sessions'[s].basket, WeightKey(Weight(p))) = q
                  ELSE response'.res = "InsufficientStock"]_vars

\* the durable row of product p in rows
RowOf(rows, p) == rows[RowIdx(rows, p)]

\* C14: the merge on login upserts every session entry into the user's
\* durable basket: a product without a row gets a row with the session
\* quantity, a product with a row gets the sum of both quantities and the
\* current catalogue price as its snapshot; rows of products the session
\* does not hold are unchanged
C14_MergeUpserts ==
    [][response'.op = "login" =>
          \A s \in Sessions, u \in Users :
             (Len(sessions[s].basket) > 0 /\ Login(s, u))
               => \A p \in Products :
                    LET sq == DictQty(sessions[s].basket, WeightKey(Weight(p)))
                        old == basketItems[u]
                        new == basketItems'[u]
                    IN IF sq > 0
                       THEN /\ RowHas(new, p)
                            /\ RowQty(new, p) = RowQty(old, p) + sq
                            /\ RowOf(new, p).price_snapshot
                                  = kettlebells[p].price_gbp
                       ELSE /\ RowHas(new, p) <=> RowHas(old, p)
                            /\ RowHas(old, p) => RowOf(new, p) = RowOf(old, p)]_vars

\* a row of quantity 1 met a session quantity of 2 and holds 3 at the new
\* price, while the other product's row keeps its older snapshot
C14_Witness ==
    /\ response = [op |-> "login", res |-> "ok"]
    /\ \E u \in Users, p \in Products, o \in Products :
          /\ p # o
          /\ RowQty(basketItems[u], p) = 3
          /\ RowOf(basketItems[u], p).price_snapshot # InitialPrice(p)
          /\ RowHas(basketItems[u], o)
          /\ RowOf(basketItems[u], o).price_snapshot # kettlebells[o].price_gbp

\* C15: a login that merges a non-empty session basket leaves the session
\* with no basket entries and the 'basket merged' flag set; clear_merge_flag
\* removes the flag; a login with an empty session basket neither sets the
\* flag nor changes the durable basket
C15_MergeFlag ==
    [][\A s \in Sessions :
         /\ \A u \in Users :
               Login(s, u) =>
                 IF Len(sessions[s].basket) > 0
                 THEN /\ sessions'[s].basket = <<>>
                      /\ sessions'[s].basket_merged
                 ELSE /\ sessions'[s].basket_merged = sessions[s].basket_merged
                      /\ ~sessions'[s].basket_merged
                      /\ basketItems' = basketItems
         /\ ClearMergeFlag(s) => ~sessions'[s].basket_merged]_vars

\* a merge has just moved the session basket into durable rows
C15_Witness ==
    /\ response = [op |-> "login", res |-> "ok"]
    /\ \E s \in Sessions :
          /\ IsAuthenticated(s)
          /\ sessions[s].basket_merged
          /\ sessions[s].basket = <<>>
          /\ Len(basketItems[sessions[s].user]) > 0

\* C16: every update of a basket quantity to q >= 1 (update_item,
\* basket_update_api on a durable row, basket_update_api on a session entry)
\* is accepted only if q <= stock of the product; a rejected update leaves
\* the quantity unchanged
C16_UpdatesValidated ==
    [][response'.op \in {"update_item", "basket_update_api"} =>
          \A s \in OrderSessions, p \in Products, q \in 1..UpdateQty :
             /\ (/\ IsAuthenticated(s)
                 /\ RowHas(basketItems[sessions[s].user], p)
                 /\ UpdateItem(s, p, q) \/ BasketUpdateItem(s, p, q))
                  => RowQty(basketItems'[sessions[s].user], p)
                       = IF q <= Stock(p) THEN q
                         ELSE RowQty(basketItems[sessions[s].user], p)
             /\ (/\ DictHas(sessions[s].basket, WeightKey(Weight(p)))
                 /\ BasketUpdateSession(s, WeightKey(Weight(p)), q))
                  => DictQty(sessions'[s].basket, WeightKey(Weight(p)))
                       = IF q <= Stock(p) THEN q
                         ELSE DictQty(sessions[s].basket, WeightKey(Weight(p)))]_vars

\* C17: checkout_success by an anonymous visitor clears the session basket
\* when the order's basket snapshot equals the live session basket, and
\* leaves the session unchanged when the two differ
C17_GuestSuccessClears ==
    [][response'.op = "checkout_success" =>
          \A s \in OrderSessions, n \in 1..MaxOrders :
             (~IsAuthenticated(s) /\ OrderExists(n) /\ CheckoutSuccess(s, n))
               => IF DictEq(JsonLoads(orders[n].original_basket),
                            sessions[s].basket)
                  THEN sessions'[s] = [sessions[s] EXCEPT !.basket = <<>>]
                  ELSE sessions'[s] = sessions[s]]_vars

\* a guest with a basket that matches no order's snapshot has just visited
\* the success page and still holds the basket
C17_Witness ==
    /\ response = [op |-> "checkout_success", res |-> "ok"]
    /\ Len(orders) > 0
    /\ \E s \in OrderSessions :
          /\ ~IsAuthenticated(s)
          /\ Len(sessions[s].basket) > 0
          /\ \A n \in 1..Len(orders) :
                /\ Len(orders[n].original_basket) > 0
                /\ ~DictEq(JsonLoads(orders[n].original_basket),
                           sessions[s].basket)

\* C18: a payment confirmation (mark_order_paid or webhook) for an order
\* already confirmed leaves the durable baskets unchanged: rows the owner
\* added after the first confirmation are still there
C18_NoSecondClear ==
    [][\A n \in 1..MaxOrders :
         (OrderExists(n) /\ AlreadyConfirmed(n) /\ PaymentConfirmation(n))
           => basketItems' = basketItems]_vars

\* a payment confirmation of an order with an authenticated owner
OwnerConfirmation(n) ==
    \/ \E s \in OrderSessions :
          IsAuthenticated(s) /\ Permitted(s, n) /\ MarkOrderPaid(s, n)
    \/ \E kind \in HandledEvents : Webhook(kind, n)

\* C19: after a payment confirmation of an authenticated owner's order
\* (mark_order_paid by the owner or a handled webhook event) the owner's
\* durable basket has no rows
C19_ConfirmationClearsBasket ==
    [][\A n \in 1..MaxOrders :
         (/\ OrderExists(n) /\ orders[n].profile # NoUser
          /\ OwnerConfirmation(n))
           => basketItems'[orders[n].profile] = <<>>]_vars

\* the owner's order, checked out from durable rows, is confirmed and the
\* owner's durable basket is empty
C19_Witness ==
    /\ response.op \in {"mark_order_paid", "webhook"}
    /\ response.res = "ok"
    /\ \E n \in 1..Len(orders) :
          /\ orders[n].profile # NoUser
          /\ Len(orders[n].items) > 0
          /\ AlreadyConfirmed(n)
          /\ basketItems[orders[n].profile] = <<>>

\* a line item whose product cannot be resolved: no product reference and a
\* product name that names no product
Unresolvable(li) ==
    li.product = NoProduct /\ li.product_name \in UnresolvableNames

\* the product a resolvable line item is about
LineProduct(li) ==
    IF li.product # NoProduct THEN li.product
    ELSE CHOOSE p \in Products : li.product_name = CatalogueName(p)

\* the quantity the resolvable line items of an order take from product p
RECURSIVE ResolvedQty(_, _)
ResolvedQty(items, p) ==
    IF Len(items) = 0 THEN 0
    ELSE (IF ~Unresolvable(items[1]) /\ LineProduct(items[1]) = p
          THEN items[1].quantity ELSE 0) + ResolvedQty(Tail(items), p)

\* C20: in a stock adjustment a line item whose product cannot be resolved
\* changes no stock and does not stop the other line items: every product
\* ends at max(0, stock - quantities of the resolvable lines for it), and
\* the order is marked stock_adjusted
C20_UnresolvableLineSkipped ==
    [][\A n \in 1..MaxOrders :
         (/\ OrderExists(n) /\ ~orders[n].stock_adjusted
          /\ ApplyOrderStockAdjustment(n))
           => /\ orders'[n].stock_adjusted
              /\ \A p \in Products :
                    kettlebells'[p].stock =
                      Max0(Stock(p) - ResolvedQty(orders[n].items, p))]_vars

\* an adjusted order whose first line is unresolvable and whose second line
\* took its quantity from a product, the other product untouched
C20_Witness ==
    /\ response = [op |-> "apply_order_stock_adjustment", res |-> "ok"]
    /\ \E n \in 1..Len(orders), p \in Products :
          /\ orders[n].stock_adjusted
          /\ Len(orders[n].items) = 2
          /\ Unresolvable(orders[n].items[1])
          /\ ~Unresolvable(orders[n].items[2])
          /\ LineProduct(orders[n].items[2]) = p
          /\ Stock(p) = MaxStock - orders[n].items[2].quantity
          /\ \A o \in Products \ {p} : Stock(o) = MaxStock

\* C21: cancel_order by an anonymous requester removes the session basket
\* only when the live session basket equals the order's stored snapshot;
\* a session basket that differs from the snapshot is left as it is
C21_GuestCancelKeepsUnrelated ==
    [][response'.op = "cancel_order" =>
          \A s \in OrderSessions, n \in 1..MaxOrders :
             (/\ ~IsAuthenticated(s) /\ OrderExists(n)
              /\ orders[n].status = STATUS_PENDING /\ Permitted(s, n)
              /\ CancelOrder(s, n))
               => IF DictEq(JsonLoads(orders[n].original_basket),
                            sessions[s].basket)
                  THEN sessions'[s].basket = <<>>
                  ELSE sessions'[s].basket = sessions[s].basket]_vars

\* C22: an add_to_basket request that fails (quantity below 1, product not
\* found, insufficient stock) leaves the session baskets and the durable
\* baskets exactly as they were
C22_FailedAddChangesNothing ==
    [][(/\ response'.op = "add_to_basket"
        /\ response'.res
              \in {"QuantityInvalid", "ProductNotFound", "InsufficientStock"})
         => /\ \A s \in Sessions : sessions'[s].basket = sessions[s].basket
            /\ basketItems' = basketItems]_vars

\* an owner holding a session entry and a durable row was just refused
C22_Witness ==
    /\ response = [op |-> "add_to_basket", res |-> "InsufficientStock"]
    /\ \E s \in OrderSessions :
          /\ IsAuthenticated(s)
          /\ Len(sessions[s].basket) > 0
          /\ Len(basketItems[sessions[s].user]) > 0

\* a requester who is neither the authenticated owner of order n nor an
\* anonymous session that holds n as its pending-order number
Stranger(s, n) ==
    IF IsAuthenticated(s) THEN orders[n].profile # sessions[s].user
    ELSE sessions[s].pending_order_number # n

\* C23: mark_order_paid and cancel_order by a requester who is neither the
\* authenticated owner of the order nor an anonymous session holding its
\* pending-order number are refused and leave orders, baskets, stock and
\* sessions unchanged
C23_StrangerRefused ==
    [][\A s \in OrderSessions, n \in 1..MaxOrders :
         (/\ OrderExists(n) /\ Stranger(s, n)
          /\ MarkOrderPaid(s, n) \/ CancelOrder(s, n))
           => /\ response'.res \in {"PermissionDenied", "InvalidStateTransition"}
              /\ UNCHANGED <<orders, sessions, basketItems, kettlebells>>]_vars

\* a logged-in user was refused on a pending order placed without a profile
C23_Witness ==
    /\ response.op \in {"mark_order_paid", "cancel_order"}
    /\ response.res = "PermissionDenied"
    /\ \E s \in OrderSessions, n \in 1..Len(orders) :
          /\ IsAuthenticated(s)
          /\ orders[n].profile = NoUser
          /\ orders[n].status = STATUS_PENDING
          /\ ~orders[n].paid
          /\ \A m \in 1..Len(orders) : orders[m].profile = NoUser

\* basket_contents_api: the quantities of the items it lists (durable rows
\* of an authenticated user, session entries of an anonymous visitor)
ContentsQuantities(sess, items) ==
    IF sess.user # NoUser
    THEN [i \in 1..Len(items[sess.user]) |-> items[sess.user][i].quantity]
    ELSE [i \in 1..Len(sess.basket) |-> sess.basket[i].quantity]

RECURSIVE SeqSum(_)
SeqSum(qs) == IF Len(qs) = 0 THEN 0 ELSE qs[1] + SeqSum(Tail(qs))

\* 'count' in the response of basket_contents_api
ContentsCount(sess, items) == SeqSum(ContentsQuantities(sess, items))

\* the basket clear_basket_api works on
ActiveBasket(sess, items) ==
    IF sess.user # NoUser THEN items[sess.user] ELSE sess.basket

\* C24: clear_basket_api leaves the active basket (durable rows of a user,
\* session basket of an anonymous visitor) empty and reports count 0; on an
\* already empty basket it succeeds and changes nothing, so applying it
\* twice gives the state of applying it once
C24_ClearBasket ==
    [][\A s \in OrderSessions :
         ClearBasketApi(s)
           => /\ response'.res = "ok"
              /\ ActiveBasket(sessions'[s], basketItems') = <<>>
              /\ ContentsCount(sessions'[s], basketItems') = 0
              /\ ActiveBasket(sessions[s], basketItems) = <<>>
                   => UNCHANGED <<sessions, basketItems, orders, kettlebells>>]_vars

\* a user's durable rows were just cleared; the session entry of the
\* earlier add is still there
C24_Witness ==
    /\ response = [op |-> "clear_basket_api", res |-> "ok"]
    /\ \E s \in OrderSessions :
          /\ IsAuthenticated(s)
          /\ basketItems[sessions[s].user] = <<>>
          /\ Len(sessions[s].basket) > 0

\* C25: after any sequence of add, update, remove, merge and clear, every
\* durable row has quantity >= 1 and every session entry quantity >= 0; an
\* update to quantity 0 deletes the durable row or removes the session entry
C25_QuantityRanges ==
    /\ [](/\ \A u \in Users : \A i \in 1..Len(basketItems[u]) :
                basketItems[u][i].quantity >= 1
          /\ \A s \in Sessions : \A i \in 1..Len(sessions[s].basket) :
                sessions[s].basket[i].quantity >= 0)
    /\ [][response'.op \in {"update_item", "basket_update_api"} =>
            \A s \in Sessions, p \in Products :
               /\ (/\ IsAuthenticated(s)
                   /\ UpdateItem(s, p, 0) \/ BasketUpdateItem(s, p, 0))
                    => ~RowHas(basketItems'[sessions[s].user], p)
               /\ BasketUpdateSession(s, WeightKey(Weight(p)), 0)
                    => ~DictHas(sessions'[s].basket, WeightKey(Weight(p)))]_vars

\* a merge has summed a row beyond one request, and an update to 0 has
\* just removed the other product's row
C25_Witness ==
    /\ response.op \in {"update_item", "basket_update_api"}
    /\ response.res = "ok"
    /\ \E s \in Sessions :
          /\ IsAuthenticated(s)
          /\ Len(basketItems[sessions[s].user]) = 1
          /\ basketItems[sessions[s].user][1].quantity > MaxQty
          /\ Len(sessions[s].basket) = 2

\* an event the webhook has nothing to do for: its type is not a payment
\* event, or it names no order, or an order that does not exist
NothingToConfirm(kind, n) ==
    \/ kind \notin {"checkout.session.completed", "payment_intent.succeeded"}
    \/ n = NoOrder
    \/ n > Len(orders)

\* C26: a webhook event that names an order number for which no order
\* exists, or whose type is not a handled payment event, is answered with
\* 200 and changes no order, basket or stock
C26_WebhookIgnores ==
    [][response'.op = "webhook" =>
          \A kind \in EventKinds, n \in 0..MaxOrders :
             (NothingToConfirm(kind, n) /\ Webhook(kind, n))
               => /\ (IF response'.res \in {"ok", "ignored"} THEN 200 ELSE 400) = 200
                  /\ UNCHANGED <<orders, basketItems, kettlebells, sessions>>]_vars

\* an event was ignored while a pending order and a durable row exist
C26_Witness ==
    /\ response = [op |-> "webhook", res |-> "ignored"]
    /\ \E n \in 1..Len(orders) :
          /\ orders[n].status = STATUS_PENDING
          /\ ~orders[n].paid
          /\ orders[n].profile # NoUser
          /\ Len(basketItems[orders[n].profile]) > 0
    /\ \A n \in 1..Len(orders) : orders[n].status = STATUS_PENDING

\* the quantity the orders' resolvable line items take from product p
RECURSIVE OrdersQty(_, _)
OrdersQty(os, p) ==
    IF Len(os) = 0 THEN 0
    ELSE ResolvedQty(os[1].items, p) + OrdersQty(Tail(os), p)

C28_ConcurrentCheckoutOneOrder ==
    [][\A s \in Sessions :
         (CheckoutSave(s) /\ ExistingOrder(s) # NoOrder)
           => /\ Len(orders') = Len(orders)
              /\ orders'[ExistingOrder(s)].items = CheckoutItems(s)
              /\ orders'[ExistingOrder(s)].total = ItemsTotal(CheckoutItems(s))]_vars

\* C29: when cancel_order and a payment confirmation of the same PENDING
\* order overlap, the outcome is one of the two serial orders: once the
\* confirmation has committed (PAID, paid) the cancel takes no effect, so a
\* paid order is never turned into FAILED and unpaid
C29_CancelNeverUndoesPayment ==
    [][\A n \in 1..Len(orders) :
         AlreadyConfirmed(n)
           => ~(orders'[n].status = STATUS_FAILED /\ ~orders'[n].paid)]_vars

\* C30: overlapping add_to_basket requests of one authenticated owner for
\* the same product are serialised by the product-row lock: every accepted
\* request adds its quantity to the durable row as it is when the request
\* commits (no lost increment), and the row never exceeds the stock
C30_ConcurrentAddsSerialised ==
    [][\A s \in Sessions :
         (AddCommit(s) /\ response'.res = "ok")
           => LET u == sessions[s].user
                  p == ProductByWeight(inflight[s].w)
              IN /\ RowQty(basketItems'[u], p)
                      = RowQty(basketItems[u], p) + inflight[s].q
                 /\ RowQty(basketItems'[u], p) <= Stock(p)]_vars

\* a request committed while another one of the same owner, which read its
\* data before that commit, is still in flight
C30_Witness ==
    /\ response = [op |-> "add_to_basket", res |-> "ok"]
    /\ \E s \in Sessions, p \in Products :
          /\ inflight[s].op = "add_to_basket"
          /\ ProductByWeight(inflight[s].w) = p
          /\ RowQty(inflight[s].rows, p) < RowQty(basketItems[sessions[s].user], p)

\* C31: in an authenticated add_to_basket the session basket is written
\* only after the durable write has succeeded: a request that returns an
\* error leaves the visitor's session basket as it was
C31_SessionWrittenAfterCommit ==
    [][(response'.op = "add_to_basket" /\ response'.res # "ok")
         => \A s \in OrderSessions :
               IsAuthenticated(s) => sessions'[s].basket = sessions[s].basket]_vars

\* C32: for an authenticated owner, whenever one of the owner's PENDING
\* orders has a snapshot equal to the current basket snapshot, checkout
\* reuses it and the number of orders does not grow; so no owner ever has
\* two PENDING orders with equal snapshots
C32_ReuseAnyMatchingPending ==
    [][\A s \in OrderSessions :
         (/\ IsAuthenticated(s)
          /\ \E n \in 1..Len(orders) :
                /\ orders[n].profile = sessions[s].user
                /\ orders[n].status = STATUS_PENDING
                /\ orders[n].original_basket = JsonDumps(sessions[s].basket)
          /\ CheckoutAgain(s))
           => /\ Len(orders') = Len(orders)
              /\ \A n, m \in 1..Len(orders') :
                    (/\ n # m
                     /\ orders'[n].profile # NoUser
                     /\ orders'[n].profile = orders'[m].profile
                     /\ orders'[n].status = STATUS_PENDING
                     /\ orders'[m].status = STATUS_PENDING)
                      => orders'[n].original_basket
                            # orders'[m].original_basket]_vars

\* C33: checkout_success requested by the owner of an order that is still
\* PENDING and unpaid leaves the owner's durable basket rows as they were.
C33_SuccessPageKeepsBasketOfUnpaidOrder ==
    [][\A s \in OrderSessions, n \in 1..MaxOrders :
         (/\ IsAuthenticated(s) /\ OrderExists(n)
          /\ orders[n].profile = sessions[s].user
          /\ orders[n].status = STATUS_PENDING /\ ~orders[n].paid
          /\ CheckoutSuccess(s, n))
           => basketItems' = basketItems]_vars

\* ---- apply_order_stock_adjustment when kb.save() of one line raises
\* kb.save() of line k raises; the except clause logs it and the loop goes on.
\* aborts: the error leaves the database transaction aborted (every later
\* statement fails and the commit rolls back), or it does not (the later
\* saves and the stock_adjusted write are committed)
ApplyOrderStockAdjustmentSaveError(n, k, aborts) ==
    LET WithoutLine(items) ==
            [i \in 1..(Len(items) - 1) |->
                IF i < k THEN items[i] ELSE items[i + 1]]
    IN
    /\ OrderExists(n)
    /\ ~AlreadyAdjusted(orders[n])
    /\ k \in 1..Len(orders[n].items)
    /\ orders[n].items[k].quantity > 0
    /\ ResolveProduct(orders[n].items[k]) # NoProduct
    /\ IF aborts
       THEN UNCHANGED <<kettlebells, orders>>
       ELSE /\ kettlebells' =
                 AdjustStock(kettlebells, WithoutLine(orders[n].items))
            /\ orders' = [orders EXCEPT ![n].stock_adjusted = TRUE]
    /\ response' = Resp("apply_order_stock_adjustment", "save_failed")
    /\ UNCHANGED inflight
    /\ UNCHANGED <<sessions, basketItems>>

NextAdjustFault ==
    \/ \E n \in 1..MaxOrders : ApplyOrderStockAdjustment(n)
    \/ \E n \in 1..MaxOrders, k \in 1..MaxLines, aborts \in BOOLEAN :
          ApplyOrderStockAdjustmentSaveError(n, k, aborts)

SpecAdjustFault == InitAdjust /\ [][NextAdjustFault]_vars

\* C34: when the stock update of one line fails inside
\* apply_order_stock_adjustment, the whole adjustment is undone: no product's
\* stock has changed and the order's stock_adjusted flag is still false.
C34_FailedAdjustmentUndone ==
    [][\A n \in 1..MaxOrders, k \in 1..MaxLines, aborts \in BOOLEAN :
         ApplyOrderStockAdjustmentSaveError(n, k, aborts)
           => /\ kettlebells' = kettlebells
              /\ ~orders'[n].stock_adjusted]_vars

\* ---- transfer_basket_to_order(order, request)
\* fail = 0: the basket is read to its end; fail = k: reading entry k raises,
\* the except clause logs it and items_to_create keeps entries 1..k-1.
\* saveFails: bulk_create or order.save raises and the transaction rolls back.
\* The helper is given an order that has no line items yet.
TransferBasketToOrder(s, n, fail, saveFails) ==
    LET rows == basketItems[sessions[s].user]
        basket == sessions[s].basket
        \* authenticated branch: one line per durable row, content_object set
        fromRows ==
            [i \in 1..Len(rows) |->
                [product |-> rows[i].product,
                 product_name |-> KbName(rows[i].product),
                 quantity |-> rows[i].quantity,
                 price |-> rows[i].price_snapshot]]
        \* session branch: the product is looked up by the weight key
        fromSession ==
            [i \in 1..Len(basket) |->
                LET w == DecimalOf(basket[i].key)
                    p == IF w = -1 THEN NoProduct ELSE ProductByWeight(w)
                IN [product |-> p,
                    product_name |-> SessionEntryName(basket[i].key),
                    quantity |-> basket[i].quantity,
                    price |-> basket[i].price_gbp]]
        all == IF IsAuthenticated(s) THEN fromRows ELSE fromSession
        items_to_create == IF fail = 0 THEN all ELSE SubSeq(all, 1, fail - 1)
    IN /\ OrderExists(n)
       /\ orders[n].items = <<>>
       /\ fail \in 0..Len(all)
       /\ orders' = IF saveFails THEN orders
                    ELSE [orders EXCEPT ![n].items = @ \o items_to_create,
                                        ![n].total = ItemsTotal(items_to_create)]
       /\ response' = Resp("transfer_basket_to_order",
                           IF fail = 0 /\ ~saveFails THEN "ok" ELSE "logged")
       /\ UNCHANGED inflight
       /\ UNCHANGED <<kettlebells, sessions, basketItems>>

\* one order without line items, as Order.objects.create leaves it
InitTransfer ==
    /\ kettlebells = [p \in Products |->
                        [stock |-> OrderStock, price_gbp |-> InitialPrice(p)]]
    /\ sessions = [s \in Sessions |->
                     [user |-> NoUser, basket |-> <<>>,
                      pending_order_number |-> NoOrder,
                      basket_merged |-> FALSE]]
    /\ basketItems = [u \in Users |-> <<>>]
    /\ orders = <<NewOrder>>
    /\ response = NoResponse
    /\ inflight = [s \in Sessions |-> NoRequest]

NextTransfer ==
    \/ \E s \in Sessions, p \in Products, q \in 1..OrderQty :
          AddToBasket(s, Weight(p), q)
    \/ \E s \in Sessions, u \in Users : Login(s, u)
    \/ \E s \in Sessions, n \in 1..MaxOrders, fail \in 0..MaxLines,
          saveFails \in BOOLEAN : TransferBasketToOrder(s, n, fail, saveFails)

SpecTransfer == InitTransfer /\ [][NextTransfer]_vars

\* C35: transfer_basket_to_order is all-or-nothing: afterwards the order has
\* one line item per basket entry and its total is their sum, or it has no
\* line item at all, also when reading the basket fails partway.
C35_TransferAllOrNothing ==
    [][\A s \in Sessions, n \in 1..MaxOrders, fail \in 0..MaxLines,
          saveFails \in BOOLEAN :
         TransferBasketToOrder(s, n, fail, saveFails)
           => \/ orders'[n].items = <<>>
              \/ /\ Len(orders'[n].items) =
                       (IF IsAuthenticated(s)
                        THEN Len(basketItems[sessions[s].user])
                        ELSE Len(sessions[s].basket))
                 /\ orders'[n].total = ItemsTotal(orders'[n].items)]_vars

\* ---- merge on login of a session basket with entries the merge drops
\* the session basket (dict: no key twice) holds up to MaxLines entries; its
\* keys are catalogue weights, a weight no product has, and texts int()
\* rejects; the user's durable basket is empty or holds one row
InitMergeDrop ==
    /\ kettlebells = [p \in Products |->
                        [stock |-> MaxStock, price_gbp |-> InitialPrice(p)]]
    /\ \E b \in LET MergeKeys == {"16", "24", "99", "16.00", "abc"}
                   SessionEntries ==
                       [key : MergeKeys, quantity : 0..MaxQty,
                        price_gbp : {InitialPrice(1)}]
               IN {d \in UNION {[1..k -> SessionEntries] : k \in 0..MaxLines} :
                      \A i, j \in 1..Len(d) : i # j => d[i].key # d[j].key} :
          sessions = [s \in Sessions |->
                        [user |-> NoUser,
                         basket |-> IF s \in OrderSessions THEN b ELSE <<>>,
                         pending_order_number |-> NoOrder,
                         basket_merged |-> FALSE]]
    /\ \E rows \in {<<>>, <<[product |-> 1, quantity |-> 1,
                               price_snapshot |-> InitialPrice(1)]>>} :
          basketItems = [u \in Users |-> rows]
    /\ orders = <<>>
    /\ response = NoResponse
    /\ inflight = [s \in Sessions |-> NoRequest]

NextMergeDrop == \E s \in Sessions, u \in Users : Login(s, u)

SpecMergeDrop == InitMergeDrop /\ [][NextMergeDrop]_vars

\* C36: the merge on login drops the session entries whose key names no
\* product (unknown weight or text that is no integer) or whose quantity is
\* not positive: no row is created or changed for them, every other entry is
\* merged, and the session basket is removed afterwards.
C36_MergeDropsUnresolvable ==
    [][\A s \in Sessions, u \in Users :
         (Len(sessions[s].basket) > 0 /\ Login(s, u))
           => LET b == sessions[s].basket
                  Mergeable(d, p) ==
                      {i \in 1..Len(d) :
                          d[i].key = WeightKey(Weight(p)) /\ d[i].quantity > 0}
                  old == basketItems[u]
                  new == basketItems'[u]
                  created == {p \in Products :
                                Mergeable(b, p) # {} /\ ~RowHas(old, p)}
              IN /\ sessions'[s].basket = <<>>
                 /\ Len(new) = Len(old) + Cardinality(created)
                 /\ \A i \in 1..Len(new) : new[i].product \in Products
                 /\ \A p \in Products :
                       IF Mergeable(b, p) = {}
                       THEN /\ RowHas(new, p) <=> RowHas(old, p)
                            /\ RowQty(new, p) = RowQty(old, p)
                       ELSE /\ RowHas(new, p)
                            /\ RowQty(new, p) = RowQty(old, p)
                                 + b[CHOOSE i \in Mergeable(b, p) : TRUE].quantity]_vars

\* a login merged a session basket all of whose entries were dropped: the
\* flag is set, the session basket is gone and the user has no durable row
C36_Witness ==
    /\ response = [op |-> "login", res |-> "ok"]
    /\ \E s \in Sessions, u \in Users :
          /\ sessions[s].user = u
          /\ sessions[s].basket_merged
          /\ sessions[s].basket = <<>>
          /\ basketItems[u] = <<>>

\* ---- _aggregate_order_items and the order summary
\* (mutant: the groups are keyed by the product name alone)
GroupKey_NameOnly(li) == <<li.product_name>>

\* key = (name, str(unit_price)), the price read from a
\* DecimalField(decimal_places=2)
GroupKey(li) ==
    LET DecimalText(pr) == CASE pr = 5 -> "5.00"
                             [] pr = 7 -> "7.00"
                             [] OTHER -> "0.00"
    IN <<li.product_name, DecimalText(li.price)>>

\* the OrderedDict of groups after the first loop
RECURSIVE AggregateGroups(_, _)
AggregateGroups(groups, items) ==
    IF Len(items) = 0 THEN groups
    ELSE LET li == items[1]
             key == GroupKey(li)
             hit == {i \in 1..Len(groups) : groups[i].key = key}
             next == IF hit = {}
                     THEN Append(groups, [key |-> key, name |-> li.product_name,
                                          unit_price |-> li.price,
                                          quantity |-> li.quantity])
                     ELSE [groups EXCEPT ![CHOOSE i \in hit : TRUE].quantity =
                             @ + li.quantity]
         IN AggregateGroups(next, Tail(items))

\* _aggregate_order_items(items_iterable): the rows of the summary
AggregateOrderItems(items) ==
    LET groups == AggregateGroups(<<>>, items)
    IN [i \in 1..Len(groups) |->
          [name |-> groups[i].name, unit_price |-> groups[i].unit_price,
           quantity |-> groups[i].quantity,
           subtotal |-> groups[i].unit_price * groups[i].quantity]]

\* the summary of order n as the checkout page, the success page and the
\* order page render it
OrderSummary(n) ==
    /\ OrderExists(n)
    /\ response' =
          LET rows == AggregateOrderItems(orders[n].items)
          IN [op |-> "order_summary", res |-> "ok", n |-> n,
              summary_items |-> rows,
              summary_total |-> SeqSum([i \in 1..Len(rows) |-> rows[i].subtotal])]
    /\ UNCHANGED <<kettlebells, sessions, basketItems, orders, inflight>>

\* one order as checkout saves it: its line items, whose names and prices
\* repeat between lines, and their sum as total
InitSummary ==
    /\ kettlebells = [p \in Products |->
                        [stock |-> MaxStock, price_gbp |-> InitialPrice(p)]]
    /\ sessions = [s \in Sessions |->
                     [user |-> NoUser, basket |-> <<>>,
                      pending_order_number |-> NoOrder,
                      basket_merged |-> FALSE]]
    /\ basketItems = [u \in Users |-> <<>>]
    /\ \E items \in
          LET SummaryLineItems ==
                  [product : {NoProduct},
                   product_name : {CatalogueName(p) : p \in Products},
                   quantity : 1..MaxQty, price : Prices]
          IN UNION {[1..k -> SummaryLineItems] : k \in 0..(MaxLines + 1)} :
          orders = <<[NewOrder EXCEPT !.items = items,
                                      !.total = ItemsTotal(items)]>>
    /\ response = NoResponse
    /\ inflight = [s \in Sessions |-> NoRequest]

NextSummary == \E n \in 1..MaxOrders : OrderSummary(n)

SpecSummary == InitSummary /\ [][NextSummary]_vars

\* C37: the summary has one row for every distinct (product name, unit
\* price) pair of the order's line items, with the summed quantity of the
\* pair; the row subtotals add up to the sum of price * quantity over the
\* line items, and the summary total equals order.total.
C37_SummaryAggregates ==
    response.op = "order_summary" =>
        LET items == orders[response.n].items
            rows == response.summary_items
            pairs == {<<items[i].product_name, items[i].price>> :
                         i \in 1..Len(items)}
        IN /\ Len(rows) = Cardinality(pairs)
           /\ \A pair \in pairs :
                 \E i \in 1..Len(rows) :
                    /\ rows[i].name = pair[1]
                    /\ rows[i].unit_price = pair[2]
                    /\ rows[i].quantity
                          = SeqSum([j \in 1..Len(items) |->
                                      IF /\ items[j].product_name = pair[1]
                                         /\ items[j].price = pair[2]
                                      THEN items[j].quantity ELSE 0])
                    /\ rows[i].subtotal = pair[2] * rows[i].quantity
           /\ response.summary_total = ItemsTotal(items)
           /\ response.summary_total = orders[response.n].total

\* a summary of three lines, two of them of the same name and price and the
\* third of the same name at another price: two rows
C37_Witness ==
    /\ response.op = "order_summary"
    /\ Len(orders[1].items) = 3
    /\ Len(response.summary_items) = 2
    /\ \E i, j \in 1..3 :
          /\ orders[1].items[i].product_name = orders[1].items[j].product_name
          /\ orders[1].items[i].price # orders[1].items[j].price

\* C38: the merge on login never leaves a durable row above the stock: when
\* the session quantity and the durable quantity of a product are each
\* within its stock, so is the merged row.
C38_MergeWithinStock ==
    [][\A s \in Sessions, u \in Users, p \in Products :
         (/\ DictQty(sessions[s].basket, WeightKey(Weight(p)))
                <= kettlebells[p].stock
          /\ RowQty(basketItems[u], p) <= kettlebells[p].stock
          /\ Login(s, u))
           => RowQty(basketItems'[u], p) <= kettlebells'[p].stock]_vars

\* C39: a checkout of an empty basket creates no Order, and the Order a
\* checkout has written has at least one line item.
C39_NoOrderFromEmptyBasket ==
    [][\A s \in OrderSessions :
         Checkout(s, TRUE)
           => /\ (IF IsAuthenticated(s)
                  THEN basketItems[sessions[s].user] = <<>>
                  ELSE sessions[s].basket = <<>>)
                    => Len(orders') = Len(orders)
              /\ \A n \in 1..Len(orders') :
                    orders'[n] # (IF OrderExists(n) THEN orders[n] ELSE NewOrder)
                      => Len(orders'[n].items) >= 1]_vars

\* ---- paid and status under overlapping requests: checkout and cancel_order
\* read the order and save it later, while mark_order_paid, the webhook and
\* the admin's dispatch run in between
NextPaidStatus ==
    \/ \E s \in OrderSessions, q \in 1..OrderQty : AddWhenIdle(s, Weight(1), q)
    \/ \E s \in OrderSessions : CheckoutLoad(s)
    \/ \E s \in OrderSessions : CheckoutSave(s)
    \/ \E s \in OrderSessions, n \in 1..MaxOrders : CancelLoad(s, n)
    \/ \E s \in OrderSessions : CancelSave(s)
    \/ \E s \in OrderSessions, n \in 1..MaxOrders : MarkOrderPaid(s, n)
    \/ \E kind \in EventKinds, n \in 0..MaxOrders : Webhook(kind, n)
    \/ \E n \in 1..MaxOrders : MarkAsDispatched(n)

SpecPaidStatus == InitPayment /\ [][NextPaidStatus]_vars

\* C40: in every reachable state the paid flag of an order agrees with its
\* status: a PAID order has paid true, a PENDING or FAILED order has paid
\* false, whatever the order and overlap of checkout, mark_order_paid, the
\* webhook, cancel_order and the admin's dispatch.
C40_PaidAgreesWithStatus ==
    \A n \in 1..Len(orders) :
       /\ orders[n].status = STATUS_PAID => orders[n].paid
       /\ orders[n].status \in {STATUS_PENDING, STATUS_FAILED} => ~orders[n].paid

\* a cancelled order next to a later order that was paid and dispatched
C40_Witness ==
    /\ Len(orders) = 2
    /\ orders[1].status = STATUS_FAILED /\ ~orders[1].paid
    /\ orders[2].status = STATUS_DISPATCHED /\ orders[2].paid
====
